---- MODULE Spec2Model ----
(***************************************************************************)
(* Portal subsystem of sweriko/euclid: the Portal entity (Portal.ts), the  *)
(* stateless transform utilities (PortalUtils.ts) and the stencil renderer *)
(* (PortalRenderer.ts).                                                    *)
(*                                                                         *)
(* Arithmetic is exact.  Lengths are integers counting hundredths of a     *)
(* world unit (1.01 is 101).  Orientations are unit quaternions of the     *)
(* Hurwitz group, stored as <<x, y, z, w>> with every component doubled,   *)
(* so that (1/2, 1/2, 1/2, 1/2) is <<1, 1, 1, 1>> and the identity is      *)
(* <<0, 0, 0, 2>>.  Their rotations map the axes onto the axes, which      *)
(* keeps every product below an integer.                                   *)
(***************************************************************************)
EXTENDS Integers, Sequences, FiniteSets, TLC

VARIABLES
  portals,        \* id -> the fields of that Portal object
  call,           \* the operation invoked last, with its arguments
  ret,            \* what that operation returned
  renderer,       \* the WebGPURenderer: autoClear, stencil, colour and depth buffer
  options,        \* PortalRenderer._options
  cameras,        \* the caller's camera ("main") and _portalCamera ("portal")
  worlds,         \* allWorlds: the registry, in insertion order
  sceneMaterial,  \* scene -> stencil state of the materials of its drawables
  stack,          \* the activations of _renderPortals, innermost last
  passes,         \* the calls made on the renderer in this frame, in order
  skipped,        \* the portals passed over in this frame
  pc,             \* "idle", "render" inside render(), "threw" after a throw
  saved,          \* originalAutoClear of the running render()
  frames,         \* frames rendered so far
  object          \* the PortalCrossingObject and the materials it created

pvars == <<portals, call, ret>>
rvars == <<renderer, options, cameras, worlds, sceneMaterial, stack, passes,
           skipped, pc, saved, frames>>
vars == <<portals, call, ret, renderer, options, cameras, worlds,
          sceneMaterial, stack, passes, skipped, pc, saved, frames, object>>

(***************************************************************************)
(* Bounds of the model                                                     *)
(***************************************************************************)
MaxCoord == 1      \* grid points have coordinates 50 * (-MaxCoord..MaxCoord)
MaxRadius == 2     \* object radii are 50 * (0..MaxRadius)
MaxRecursion == 3  \* maxRecursion is one of 0..MaxRecursion
NumPixels == 2     \* the frame has the pixels 1..NumPixels
MaxFrames == 1     \* render() calls in one behaviour
MaxRebuilds == 2   \* rebuilds of the clipped variants in one behaviour

None == "none"
PortalIds == {"A", "B", "C"}

(***************************************************************************)
(* THREE.Vector3 and THREE.Quaternion                                      *)
(***************************************************************************)
Abs(n) == IF n < 0 THEN -n ELSE n
Max(a, b) == IF a >= b THEN a ELSE b

sub(a, b) == <<a[1] - b[1], a[2] - b[2], a[3] - b[3]>>
add(a, b) == <<a[1] + b[1], a[2] + b[2], a[3] + b[3]>>
dot(a, b) == a[1] * b[1] + a[2] * b[2] + a[3] * b[3]

\* Quaternion.invert(): the conjugate
invert(q) == <<-q[1], -q[2], -q[3], q[4]>>

\* Quaternion.multiply(): a * b; on doubled components the product is halved.
\* (An argument is named once through a singleton set, so that a nested
\* product is evaluated once and not once per component.)
multiply(qa, qb) ==
  CHOOSE r \in
    { << (a[1] * b[4] + a[4] * b[1] + a[2] * b[3] - a[3] * b[2]) \div 2,
         (a[2] * b[4] + a[4] * b[2] + a[3] * b[1] - a[1] * b[3]) \div 2,
         (a[3] * b[4] + a[4] * b[3] + a[1] * b[2] - a[2] * b[1]) \div 2,
         (a[4] * b[4] - a[1] * b[1] - a[2] * b[2] - a[3] * b[3]) \div 2 >>
      : a \in {qa}, b \in {qb} } : TRUE

\* Vector3.applyQuaternion(): t = 2 cross(q.xyz, v); v + q.w t + cross(q.xyz, t)
applyQuaternion(vec, quat) ==
  CHOOSE r \in
    { LET tx == q[2] * v[3] - q[3] * v[2]
          ty == q[3] * v[1] - q[1] * v[3]
          tz == q[1] * v[2] - q[2] * v[1]
      IN << v[1] + (q[4] * tx + q[2] * tz - q[3] * ty) \div 2,
            v[2] + (q[4] * ty + q[3] * tx - q[1] * tz) \div 2,
            v[3] + (q[4] * tz + q[1] * ty - q[2] * tx) \div 2 >>
      : v \in {vec}, q \in {quat} } : TRUE

Identity == <<0, 0, 0, 2>>
\* new Quaternion().setFromAxisAngle((0, 1, 0), Math.PI): (0, sin, 0, cos) of pi/2
flipY == <<0, 2, 0, 0>>

\* the same rotation: q and -q rotate every vector alike
SameRotation(p, q) == p = q \/ p = <<-q[1], -q[2], -q[3], -q[4]>>

(***************************************************************************)
(* Portal                                                                  *)
(***************************************************************************)
\* constructor: the fields after new Portal(id, width, height, position, rotation)
\* where rotation is given by what setFromEuler yields of it: the quaternion
\* and whether its doubles hold a residue (residue is FALSE when rotation
\* is absent or Euler(0, 0, 0));
\* quaternionResidue: the components of this.quaternion hold a residue;
\* normalResidue: _normal was computed from such a quaternion and holds one
Portal(width, height, position, quaternion, residue) ==
  [ width |-> width, height |-> height,
    position |-> position, quaternion |-> quaternion,
    quaternionResidue |-> residue,
    linkedPortal |-> None,
    scene |-> None,
    meshParent |-> None,
    material |-> [stencilWrite |-> TRUE, stencilFunc |-> "always",
                  stencilRef |-> 1],
    normal |-> applyQuaternion(<<0, 0, 1>>, quaternion),
    normalResidue |-> residue,
    disposed |-> FALSE ]

\* link() that forgets the back-reference
link_oneSided(ps, this, portal) == [ps EXCEPT ![this].linkedPortal = portal]

\* link(portal) called on `this`; ps is the heap of portals
RECURSIVE link(_, _, _)
link(ps, this, portal) ==
  LET ps1 == [ps EXCEPT ![this].linkedPortal = portal]
  IN IF ps1[portal].linkedPortal # this THEN link(ps1, portal, this) ELSE ps1

\* getPlane(): new Plane().setFromNormalAndCoplanarPoint(_normal, position)
getPlane(ps, this) ==
  [ normal |-> ps[this].normal,
    constant |-> -dot(ps[this].position, ps[this].normal) ]

\* Plane.negate()
negate(plane) ==
  [ normal |-> <<-plane.normal[1], -plane.normal[2], -plane.normal[3]>>,
    constant |-> -plane.constant ]

\* Plane.distanceToPoint()
distanceToPoint(plane, point) == dot(plane.normal, point) + plane.constant

\* setFromEuler and applyQuaternion work in doubles: a quaternion with a
\* turn in it, and every vector turned by it, is off the exact value by a
\* residue far below the unit of the model (Euler(0, pi, 0) gives the
\* quaternion (0, 1, 0, 6.1e-17) and the normal (1.2e-16, 0, -1)).  The
\* residue shows only where a computed value is compared with a limit it
\* exactly meets; `rounding` is its sign there, and which sign the doubles
\* give is left open.  Values computed without a turn are exact.  Full
\* turns are turns: Euler(2 pi, 0, 0) gives the quaternion
\* (1.2e-16, 0, 0, -1) and the normal (0, 2.4e-16, 1), Euler(4 pi, 0, 0) the
\* quaternion (-2.4e-16, 0, 0, 1) and the normal (0, 4.9e-16, 1): the
\* identity rotation, held with a residue.
Roundings(exact) == IF exact THEN {0} ELSE {-1, 0, 1}

\* the residues a quaternion of these components can hold: none or some for
\* the identity (Euler(0, 0, 0) against Euler(4 pi, 0, 0)), some for every
\* other one
Residues(quaternion) == IF quaternion = Identity THEN BOOLEAN ELSE {TRUE}

\* the quaternion of the portal holds no residue: it is (0, 0, 0, 1) in
\* doubles, as new Quaternion() and Euler(0, 0, 0) give it
ExactQuaternion(portal) == ~portal.quaternionResidue

\* the cached normal of the portal is (0, 0, 1) in doubles: the quaternion
\* it was computed from, by the constructor or by updateMesh(), held no
\* residue
ExactNormal(portal) == ~portal.normalResidue

\* computed value > limit, computed value < limit, for the computed value
\* v + rounding * residue
Greater(v, rounding, limit) == v > limit \/ (v = limit /\ rounding > 0)
Less(v, rounding, limit) == v < limit \/ (v = limit /\ rounding < 0)

\* getSignedDistance(point)
getSignedDistance(ps, this, point) ==
  dot(sub(point, ps[this].position), ps[this].normal)

\* isPointInFront that counts a point in the plane as in front
isPointInFront_onPlane(ps, this, point, rounding) ==
  ~Less(dot(sub(point, ps[this].position), ps[this].normal), rounding, 0)

\* isPointInFront(point): toPoint.dot(_normal) > 0 on the computed value
isPointInFront(ps, this, point, rounding) ==
  Greater(dot(sub(point, ps[this].position), ps[this].normal), rounding, 0)

\* steps 1 to 5 of getDestinationCameraTransform without the 180 degree turn
destinationPosition_noFlip(src, dest, viewerPosition) ==
  add(applyQuaternion(applyQuaternion(sub(viewerPosition, src.position),
                                      invert(src.quaternion)),
                      dest.quaternion),
      dest.position)

\* steps 1 to 5 of getDestinationCameraTransform: the destination position
destinationPosition(src, dest, viewerPosition) ==
  LET relativePos == applyQuaternion(sub(viewerPosition, src.position),
                                     invert(src.quaternion))
      flipped == <<-relativePos[1], relativePos[2], -relativePos[3]>>
  IN add(applyQuaternion(flipped, dest.quaternion), dest.position)

\* step 6: dest.quaternion * flipY * srcInverse * viewerQuaternion
destinationQuaternion(src, dest, viewerQuaternion) ==
  multiply(multiply(multiply(dest.quaternion, flipY), invert(src.quaternion)),
           viewerQuaternion)

\* the early return of getDestinationCameraTransform, measuring the viewer
\* from the portal instead of returning it as given
passthrough_relative(ps, this, viewerPosition, viewerQuaternion) ==
  [ position |-> sub(viewerPosition, ps[this].position),
    quaternion |-> viewerQuaternion ]

\* the early return of getDestinationCameraTransform for a portal without link
passthrough(ps, this, viewerPosition, viewerQuaternion) ==
  [ position |-> viewerPosition, quaternion |-> viewerQuaternion ]

\* getDestinationCameraTransform(viewerPosition, viewerQuaternion)
getDestinationCameraTransform(ps, this, viewerPosition, viewerQuaternion) ==
  IF ps[this].linkedPortal = None
  THEN passthrough(ps, this, viewerPosition, viewerQuaternion)
  ELSE LET dest == ps[ps[this].linkedPortal]
       IN [ position |-> destinationPosition(ps[this], dest, viewerPosition),
            quaternion |->
              destinationQuaternion(ps[this], dest, viewerQuaternion) ]

\* the residue of Math.abs(v) for the computed value v + rounding * residue
AbsRounding(v, rounding) ==
  IF v > 0 THEN rounding ELSE IF v < 0 THEN -rounding ELSE Abs(rounding)

\* isPointInBounds with the width limit exclusive
isPointInBounds_strict(ps, this, point, margin, roundingX, roundingY) ==
  LET localPoint == applyQuaternion(sub(point, ps[this].position),
                                    invert(ps[this].quaternion))
      halfWidth == ps[this].width \div 2 + margin
  IN /\ Less(Abs(localPoint[1]), AbsRounding(localPoint[1], roundingX),
             halfWidth)
     /\ ~Less(localPoint[2], roundingY, -margin)
     /\ ~Greater(localPoint[2], roundingY, ps[this].height + margin)

\* isPointInBounds(point, margin) on the computed local coordinates;
\* roundingX and roundingY are the residues of localPoint.x and
\* localPoint.y; every width of the model is even
isPointInBounds(ps, this, point, margin, roundingX, roundingY) ==
  LET localPoint == applyQuaternion(sub(point, ps[this].position),
                                    invert(ps[this].quaternion))
      halfWidth == ps[this].width \div 2 + margin
  IN /\ ~Greater(Abs(localPoint[1]), AbsRounding(localPoint[1], roundingX),
                 halfWidth)
     /\ ~Less(localPoint[2], roundingY, -margin)
     /\ ~Greater(localPoint[2], roundingY, ps[this].height + margin)

\* updateMesh(): refresh the cached normal from the quaternion
updateMesh(ps, this) ==
  [ps EXCEPT ![this].normal = applyQuaternion(<<0, 0, 1>>, ps[this].quaternion),
             ![this].normalResidue = ps[this].quaternionResidue]

\* dispose(): the geometry and the stencil material are released
dispose(ps, this) == [ps EXCEPT ![this].disposed = TRUE]

(***************************************************************************)
(* PortalUtils                                                             *)
(***************************************************************************)
\* transformPointThroughPortal that does not measure from the source portal
transformPointThroughPortal_noSub(point, sourcePortal, destPortal) ==
  LET relativePos == applyQuaternion(point, invert(sourcePortal.quaternion))
      flipped == <<-relativePos[1], relativePos[2], -relativePos[3]>>
  IN add(applyQuaternion(flipped, destPortal.quaternion), destPortal.position)

\* transformPointThroughPortal(point, sourcePortal, destPortal)
transformPointThroughPortal(point, sourcePortal, destPortal) ==
  LET relativePos == applyQuaternion(sub(point, sourcePortal.position),
                                     invert(sourcePortal.quaternion))
      flipped == <<-relativePos[1], relativePos[2], -relativePos[3]>>
  IN add(applyQuaternion(flipped, destPortal.quaternion), destPortal.position)

\* transformQuaternionThroughPortal with the factors in reverse order
transformQuaternionThroughPortal_reversed(quat, sourcePortal, destPortal) ==
  multiply(multiply(multiply(quat, invert(sourcePortal.quaternion)), flipY),
           destPortal.quaternion)

\* transformQuaternionThroughPortal(quat, sourcePortal, destPortal)
transformQuaternionThroughPortal(quat, sourcePortal, destPortal) ==
  multiply(multiply(multiply(destPortal.quaternion, flipY),
                    invert(sourcePortal.quaternion)),
           quat)

\* getPortalCrossingState with the far limit inclusive
getPortalCrossingState_inclusive(objectPosition, objectRadius, portalPlane, rounding) ==
  LET signedDistance == distanceToPoint(portalPlane, objectPosition)
  IN [ crossing |-> Greater(signedDistance, rounding, -objectRadius)
                    /\ ~Greater(signedDistance, rounding, objectRadius),
       signedDistance |-> signedDistance,
       inFront |-> Max(0, signedDistance + objectRadius),
       behind |-> Max(0, -signedDistance + objectRadius) ]

\* getPortalCrossingState(objectPosition, objectRadius, portalPlane);
\* rounding is the residue of the computed signedDistance, and the three
\* numbers returned are given to the unit of the model
getPortalCrossingState(objectPosition, objectRadius, portalPlane, rounding) ==
  LET signedDistance == distanceToPoint(portalPlane, objectPosition)
  IN [ crossing |-> Greater(signedDistance, rounding, -objectRadius)
                    /\ Less(signedDistance, rounding, objectRadius),
       signedDistance |-> signedDistance,
       inFront |-> Max(0, signedDistance + objectRadius),
       behind |-> Max(0, -signedDistance + objectRadius) ]

(***************************************************************************)
(* PortalCrossingObject (ClippedMaterial.ts).  `materials` is the heap of  *)
(* the materials the object has to do with: the original one first, then   *)
(* every variant it created, each with its clip plane and whether          *)
(* dispose() was called on it.  A field that holds a material holds its    *)
(* index in the heap, NoMaterial for null.  _crossingPortal is a set: empty *)
(* for null, else the one stored plane.  lastCrossing is history: the      *)
(* plane of the last call of updateCrossing that reported crossing.        *)
(***************************************************************************)
NoMaterial == 0
OriginalMaterial == 1

MaterialKinds == {"MeshStandardNodeMaterial", "MeshBasicNodeMaterial"}

\* a material that discards nothing
Unclipped == [clipped |-> FALSE, normal |-> <<0, 0, 0>>, constant |-> 0,
              disposed |-> FALSE]

\* createClippedStandardMaterial(baseMaterial, clipPlane): a clone that
\* discards the fragments with dot(position, normal) + constant < 0
createClippedStandardMaterial(clipPlane) ==
  [clipped |-> TRUE, normal |-> clipPlane.normal,
   constant |-> -dot(clipPlane.normal, clipPlane.point), disposed |-> FALSE]

\* new PortalCrossingObject(mesh)
PortalCrossingObject(position, quaternion, kind) ==
  [ position |-> position, quaternion |-> quaternion,
    material |-> OriginalMaterial,
    clone |-> [visible |-> FALSE, material |-> OriginalMaterial,
               position |-> position, quaternion |-> quaternion],
    originalKind |-> kind,
    sourceClipMaterial |-> NoMaterial,
    destClipMaterial |-> NoMaterial,
    crossingPortal |-> {},
    materials |-> <<Unclipped>>,
    lastCrossing |-> {} ]

\* material.dispose() on the material a field holds, if it holds one
disposeMaterial(materials, m) ==
  IF m = NoMaterial THEN materials
  ELSE [materials EXCEPT ![m].disposed = TRUE]

\* _updateClipMaterials() that drops the old variants without dispose()
updateClipMaterials_leak(o) ==
  LET plane == CHOOSE c \in o.crossingPortal : TRUE
      n == Len(o.materials)
      standard == o.originalKind = "MeshStandardNodeMaterial"
      source == IF standard THEN createClippedStandardMaterial(plane)
                ELSE Unclipped
      dest == IF standard
              THEN createClippedStandardMaterial(
                     [normal |-> <<-plane.normal[1], -plane.normal[2],
                                   -plane.normal[3]>>,
                      point |-> plane.point])
              ELSE Unclipped
  IN IF o.crossingPortal = {} THEN o
     ELSE [o EXCEPT !.materials = Append(Append(o.materials, source), dest),
                    !.sourceClipMaterial = n + 1,
                    !.destClipMaterial = n + 2]

\* _updateClipMaterials()
updateClipMaterials(o) ==
  LET plane == CHOOSE c \in o.crossingPortal : TRUE
      old == disposeMaterial(disposeMaterial(o.materials,
                                             o.sourceClipMaterial),
                             o.destClipMaterial)
      n == Len(o.materials)
      standard == o.originalKind = "MeshStandardNodeMaterial"
      source == IF standard THEN createClippedStandardMaterial(plane)
                ELSE Unclipped
      dest == IF standard
              THEN createClippedStandardMaterial(
                     [normal |-> <<-plane.normal[1], -plane.normal[2],
                                   -plane.normal[3]>>,
                      point |-> plane.point])
              ELSE Unclipped
  IN IF o.crossingPortal = {} THEN o
     ELSE [o EXCEPT !.materials = Append(Append(old, source), dest),
                    !.sourceClipMaterial = n + 1,
                    !.destClipMaterial = n + 2]

\* the test of updateCrossing
isCrossing(o, portalNormal, portalPoint, objectRadius) ==
  Abs(dot(sub(o.position, portalPoint), portalNormal)) < objectRadius

\* updateCrossing that shows the clone whenever it holds a variant
updateCrossing_keepClone(o, portalNormal, portalPoint, objectRadius) ==
  LET plane == [normal |-> portalNormal, point |-> portalPoint]
      o1 == IF o.crossingPortal # {plane}
            THEN updateClipMaterials([o EXCEPT !.crossingPortal = {plane}])
            ELSE o
  IN IF isCrossing(o, portalNormal, portalPoint, objectRadius)
     THEN [o1 EXCEPT !.material = o1.sourceClipMaterial,
                     !.clone.material = o1.destClipMaterial,
                     !.clone.visible = TRUE,
                     !.lastCrossing = {plane}]
     ELSE [o EXCEPT !.material = OriginalMaterial,
                    !.crossingPortal = {}]

\* updateCrossing(portalNormal, portalPoint, objectRadius): the object after
\* the call; the call returns isCrossing
updateCrossing(o, portalNormal, portalPoint, objectRadius) ==
  LET plane == [normal |-> portalNormal, point |-> portalPoint]
      o1 == IF o.crossingPortal # {plane}
            THEN updateClipMaterials([o EXCEPT !.crossingPortal = {plane}])
            ELSE o
  IN IF isCrossing(o, portalNormal, portalPoint, objectRadius)
     THEN [o1 EXCEPT !.material = o1.sourceClipMaterial,
                     !.clone.material = o1.destClipMaterial,
                     !.clone.visible = TRUE,
                     !.lastCrossing = {plane}]
     ELSE [o EXCEPT !.material = OriginalMaterial,
                    !.clone.visible = FALSE,
                    !.crossingPortal = {}]

\* syncClonePosition(sourcePortalPos, sourcePortalQuat, destPortalPos,
\* destPortalQuat)
syncClonePosition(o, sourcePortalPos, sourcePortalQuat, destPortalPos, destPortalQuat) ==
  LET srcInverse == invert(sourcePortalQuat)
      relativePos == applyQuaternion(sub(o.position, sourcePortalPos),
                                     srcInverse)
      flipped == <<-relativePos[1], relativePos[2], -relativePos[3]>>
  IN IF ~o.clone.visible THEN o
     ELSE [o EXCEPT
             !.clone.position =
               add(applyQuaternion(flipped, destPortalQuat), destPortalPos),
             !.clone.quaternion =
               multiply(multiply(multiply(destPortalQuat, flipY), srcInverse),
                        o.quaternion)]

\* PortalCrossingObject.dispose()
disposeObject(o) ==
  [o EXCEPT !.materials =
              disposeMaterial(disposeMaterial(o.materials,
                                              o.sourceClipMaterial),
                              o.destClipMaterial)]

\* the object every specification but those on the crossing object holds
FreshObject ==
  PortalCrossingObject(<<0, 0, 0>>, Identity, "MeshStandardNodeMaterial")

(***************************************************************************)
(* The renderer behind PortalRenderer.  The stencil state of a material is *)
(* in force only while its stencilWrite is true: the renderer then         *)
(* compares the buffer with stencilRef by stencilFunc and applies the      *)
(* stencil operation, and with stencilWrite false it makes no comparison   *)
(* and draws on every pixel the drawable covers.  The drawables of a scene *)
(* are taken to cover the whole frame, and the pixels a portal's mask      *)
(* rectangle covers are an input of each draw call.  colour[p] is the      *)
(* index in `passes` of the call that painted pixel p last, 0 after a      *)
(* clear.  The stencil fields of a material are read as                    *)
(* _renderSceneWithStencilTest sets them.  depth[p] is the index of the    *)
(* call whose drawables wrote the depth of pixel p last, 0 after a clear;  *)
(* mask materials have depthWrite off; the depth test itself is not        *)
(* modelled.  Each log entry keeps, as `material`, the stencil fields the  *)
(* draw call found: of the portal's mask material in a mask pass, of the   *)
(* scene's materials in the other passes.                                  *)
(***************************************************************************)
Pixels == 1..NumPixels
Scenes == {"S1", "S2"}

Range(seq) == {seq[i] : i \in 1..Len(seq)}

\* the stencil comparison of a material against the value in the buffer
StencilTest(stencilFunc, stencilRef, value) ==
  CASE stencilFunc = "always" -> TRUE
    [] stencilFunc = "equal" -> value = stencilRef
    [] stencilFunc = "notequal" -> value # stencilRef

\* a draw call that compares with the buffer whatever stencilWrite says
stencilPass_alwaysCompared(material, value) ==
  StencilTest(material.stencilFunc, material.stencilRef, value)

\* whether a drawable with this material is drawn on a pixel whose stencil
\* value is `value`: the comparison is made only with stencilWrite on
stencilPass(material, value) ==
  ~material.stencilWrite
    \/ StencilTest(material.stencilFunc, material.stencilRef, value)

\* stencil fields of a material that nobody has touched
DefaultMaterial ==
  [stencilWrite |-> FALSE, stencilFunc |-> "always", stencilRef |-> 0]

\* a camera at a pose with its own perspective projection; `projection`
\* lists the clip planes that computeObliqueProjectionMatrix folded into it
Camera(position, quaternion) ==
  [position |-> position, quaternion |-> quaternion, projection |-> <<>>]

\* a clear that leaves the stencil buffer as it is
clear_keepStencil(r) ==
  [r EXCEPT !.colour = [p \in Pixels |-> 0], !.depth = [p \in Pixels |-> 0]]

\* renderer.clear(true, true, true)
clear(r) ==
  [r EXCEPT !.stencil = [p \in Pixels |-> 0], !.colour = [p \in Pixels |-> 0],
            !.depth = [p \in Pixels |-> 0]]

\* the coverages the mask rectangles drawn in one call can have: rectangles
\* of one scene do not overlap on screen
Covers(drawn) ==
  { [q \in PortalIds |-> IF q \in drawn THEN c[q] ELSE {}] :
      c \in { d \in [drawn -> SUBSET Pixels] :
                \A q1, q2 \in drawn : q1 # q2 => d[q1] \cap d[q2] = {} } }

\* this._renderer.render(scene, camera): every drawable of the scene and
\* every portal mesh that is a child of it is drawn; g holds the renderer,
\* the materials, the portals and the log
rendererRender(g, entry, scene, cover) ==
  LET mat == g.sceneMaterial[scene]
      painted == {p \in Pixels : stencilPass(mat, g.renderer.stencil[p])}
      meshes == {q \in PortalIds : g.portals[q].meshParent = scene}
      stampedBy(q) ==
        IF g.portals[q].material.stencilWrite
        THEN {p \in cover[q] :
                StencilTest(g.portals[q].material.stencilFunc,
                            g.portals[q].material.stencilRef,
                            g.renderer.stencil[p])}
        ELSE {}
      stamped == UNION {stampedBy(q) : q \in meshes}
      idx == Len(g.passes) + 1
  IN [g EXCEPT
        !.renderer.colour =
          [p \in Pixels |-> IF p \in painted THEN idx ELSE @[p]],
        !.renderer.depth =
          [p \in Pixels |-> IF p \in painted THEN idx ELSE @[p]],
        !.renderer.stencil =
          [p \in Pixels |->
             IF p \in stamped
             THEN g.portals[CHOOSE q \in meshes : p \in stampedBy(q)]
                    .material.stencilRef
             ELSE @[p]],
        !.passes =
          Append(@, [entry EXCEPT !.scene = scene,
                                  !.stencilFunc = mat.stencilFunc,
                                  !.stencilRef = mat.stencilRef,
                                  !.painted = painted,
                                  !.meshes = meshes,
                                  !.stamped = stamped,
                                  !.own = IF entry.portal \in meshes
                                          THEN stampedBy(entry.portal)
                                          ELSE {},
                                  !.depthHeld =
                                    {p \in Pixels : g.renderer.depth[p] # 0},
                                  !.material =
                                    IF entry.kind = "mask"
                                    THEN g.portals[entry.portal].material
                                    ELSE mat])]

\* a log entry before the draw call fills in what it drew
Entry(kind, portal, depth, camera, pose) ==
  [kind |-> kind, portal |-> portal, depth |-> depth, camera |-> camera,
   pose |-> pose, scene |-> None, stencilFunc |-> "always", stencilRef |-> 0,
   painted |-> {}, meshes |-> {}, stamped |-> {}, own |-> {}, depthHeld |-> {},
   material |-> DefaultMaterial]

\* _renderPortalStencil(portal, camera, stencilValue)
renderPortalStencil(g, entry, portal, stencilValue, cover) ==
  LET g1 == [g EXCEPT !.portals[portal].material.stencilRef = stencilValue]
      scene == g.portals[portal].scene
      wasInScene == g.portals[portal].meshParent = scene
      g2 == [g1 EXCEPT !.portals[portal].meshParent = scene]
      g3 == rendererRender(g2, entry, scene, cover)
  IN IF scene = None THEN g1
     ELSE IF wasInScene THEN g3
     ELSE [g3 EXCEPT !.portals[portal].meshParent = None]

\* the first traversal of _renderSceneWithStencilTest: every mesh of the
\* scene, the portal meshes in it included, gets the test
applyStencilTest(g, scene, stencilRef, stencilFunc) ==
  LET m == [stencilWrite |-> FALSE, stencilFunc |-> stencilFunc,
            stencilRef |-> stencilRef]
  IN [g EXCEPT
        !.sceneMaterial[scene] = m,
        !.portals = [q \in PortalIds |->
                       IF @[q].meshParent = scene
                       THEN [@[q] EXCEPT !.material = m]
                       ELSE @[q]]]

\* the second traversal: stencilFunc back to always, stencilRef stays
resetStencilTest(g, scene) ==
  [g EXCEPT
     !.sceneMaterial[scene].stencilWrite = FALSE,
     !.sceneMaterial[scene].stencilFunc = "always",
     !.portals = [q \in PortalIds |->
                    IF @[q].meshParent = scene
                    THEN [@[q] EXCEPT !.material.stencilWrite = FALSE,
                                      !.material.stencilFunc = "always"]
                    ELSE @[q]]]

\* _renderSceneWithStencilTest(camera, scene, stencilRef, stencilFunc): the
\* first traversal, the draw call, the second traversal (each stage is the
\* element of a singleton, a value computed once)
renderSceneWithStencilTest(g, entry, scene, stencilRef, stencilFunc) ==
  CHOOSE done \in
    { resetStencilTest(drawn, scene) :
        drawn \in { rendererRender(tested, entry, scene,
                                   [q \in PortalIds |-> {}]) :
                      tested \in {applyStencilTest(g, scene, stencilRef,
                                                   stencilFunc)} } } : TRUE

\* _renderPortalStencil whose draw call throws: the reference value is set
\* and the mesh was added, and the lines after the draw call are not reached
renderPortalStencilThrows(g, portal, stencilValue) ==
  [g EXCEPT !.portals[portal].material.stencilRef = stencilValue,
            !.portals[portal].meshParent = g.portals[portal].scene]

\* _renderSceneWithStencilTest whose draw call throws: the first traversal
\* was made, the second is not reached
renderSceneWithStencilTestThrows(g, scene, stencilRef, stencilFunc) ==
  applyStencilTest(g, scene, stencilRef, stencilFunc)

\* autoClear put back only when the body of the call returned
restoreAutoClear_afterTry(r, originalAutoClear, threw) ==
  IF threw THEN r ELSE [r EXCEPT !.autoClear = originalAutoClear]

\* the finally block of render() and renderSimple()
restoreAutoClear(r, originalAutoClear, threw) ==
  [r EXCEPT !.autoClear = originalAutoClear]

\* the places of a call where a draw call can throw
ThrowPoints == {"none", "mask", "dest", "world"}

\* renderSimple(camera, currentScene, destinationScene, portal); g holds the
\* renderer, the materials, the portals, the log and the cameras, cover is
\* what the mask rectangles cover, throwAt the draw call that throws
renderSimple(g, camera, currentScene, destinationScene, portal, cover, throwAt) ==
  LET originalAutoClear == g.renderer.autoClear
      g0 == [g EXCEPT !.renderer = clear([@ EXCEPT !.autoClear = FALSE]),
                      !.passes = <<Entry("clear", None, 0, None, None)>>,
                      !.cameras.main = camera]
      linked == g.portals[portal].linkedPortal # None
      destPortal == g.portals[portal].linkedPortal
      g1 == renderPortalStencil(g0, Entry("mask", portal, 0, "main", camera),
                                portal, 1, cover)
      destTransform ==
        getDestinationCameraTransform(g.portals, portal, camera.position,
                                      camera.quaternion)
      portalCamera ==
        [position |-> destTransform.position,
         quaternion |-> destTransform.quaternion,
         projection |-> Append(camera.projection,
                               negate(getPlane(g.portals, destPortal)))]
      g2 == [g1 EXCEPT !.cameras.portal = portalCamera]
      g3 == renderSceneWithStencilTest(
              g2, Entry("dest", portal, 0, "portal", portalCamera),
              destinationScene, 1, "equal")
      g4 == IF linked THEN g3 ELSE g0
      g5 == renderSceneWithStencilTest(
              g4, Entry("world", None, 0, "main", camera),
              currentScene, 1, "notequal")
      end ==
        CASE throwAt = "mask" -> renderPortalStencilThrows(g0, portal, 1)
          [] throwAt = "dest" ->
               renderSceneWithStencilTestThrows(g2, destinationScene, 1,
                                                "equal")
          [] throwAt = "world" ->
               renderSceneWithStencilTestThrows(g4, currentScene, 1,
                                                "notequal")
          [] OTHER -> g5
  IN [end EXCEPT !.renderer = restoreAutoClear(@, originalAutoClear,
                                               throwAt # "none")]

\* the guard of _renderPortals, one level too generous
depthExhausted_offByOne(depth, maxRecursion) == depth > maxRecursion

\* the guard at the head of _renderPortals
depthExhausted(depth, maxRecursion) == depth >= maxRecursion

\* the search of allWorlds for the world that holds destPortal; 0 if none
findDestWorld(ws, destPortal) ==
  LET hits == {w \in 1..Len(ws) : destPortal \in Range(ws[w].portals)}
  IN IF hits = {} THEN 0 ELSE CHOOSE w \in hits : \A v \in hits : w <= v

\* what the loop of _renderPortals decides for one portal; rounding is the
\* residue of the distance isPointInFront computes
portalDecision(ps, ws, cameraPosition, portal, rounding) ==
  IF ps[portal].linkedPortal = None THEN "unlinked"
  ELSE IF ~isPointInFront(ps, portal, cameraPosition, rounding) THEN "behind"
  ELSE IF findDestWorld(ws, ps[portal].linkedPortal) = 0 THEN "noworld"
  ELSE "render"

\* the reference value render() hands to _renderWorldWithStencil
worldPassRef == 0

\* the renderer and the PortalRenderer before any frame
IdleRenderer ==
  /\ renderer = [autoClear |-> TRUE, stencil |-> [p \in Pixels |-> 0],
                 colour |-> [p \in Pixels |-> 0],
                 depth |-> [p \in Pixels |-> 0]]
  /\ options = [maxRecursion |-> 1]
  /\ cameras = [main |-> Camera(<<0, 0, 0>>, Identity),
                portal |-> Camera(<<0, 0, 0>>, Identity)]
  /\ worlds = <<>>
  /\ sceneMaterial = [sc \in Scenes |-> DefaultMaterial]
  /\ stack = <<>>
  /\ passes = <<>>
  /\ skipped = <<>>
  /\ pc = "idle"
  /\ saved = TRUE
  /\ frames = 0

(***************************************************************************)
(* Inputs                                                                  *)
(***************************************************************************)
Coords == {50 * k : k \in -MaxCoord..MaxCoord}
GridPoints == {<<x, y, z>> : x \in Coords, y \in Coords, z \in Coords}
\* the points named by the scenarios of the specification
ScenarioPoints ==
  {<<100, 150, 0>>, <<101, 150, 0>>, <<0, 301, 0>>, <<0, 100, -50>>}
Points == GridPoints \cup ScenarioPoints
Radii == {50 * k : k \in 0..MaxRadius}
Margins == {0, 10}

\* identity, half turns about Y and X, thirds of a turn about the diagonals
\* (1,1,1) and (-1,1,-1), and the identity with the opposite sign
Orientations ==
  {Identity, flipY, <<2, 0, 0, 0>>, <<1, 1, 1, 1>>, <<-1, 1, -1, 1>>,
   <<0, 0, 0, -2>>}
ViewerOrientations == {Identity, flipY, <<1, 1, 1, 1>>}

\* position and orientation of a portal
Poses ==
  { <<(<<0, 0, 0>>), Identity>>,
    <<(<<0, 0, 1000>>), flipY>>,
    <<(<<50, -100, 150>>), (<<1, 1, 1, 1>>)>>,
    <<(<<-50, 0, 100>>), (<<2, 0, 0, 0>>)>>,
    <<(<<0, 50, 0>>), (<<-1, 1, -1, 1>>)>> }
\* width and height of a portal
Sizes == {<<200, 300>>, <<100, 200>>}

DefaultPortal == Portal(100, 200, <<0, 0, 0>>, Identity, FALSE)
NoCall == [op |-> "none"]

\* position and quaternion of a portal, as PortalUtils takes them
PoseOf(ps, id) ==
  [position |-> ps[id].position, quaternion |-> ps[id].quaternion]

(***************************************************************************)
(* SpecLink: three portals and their link() calls                          *)
(***************************************************************************)
InitLink ==
  /\ portals = [id \in PortalIds |-> DefaultPortal]
  /\ call = NoCall
  /\ ret = None
  /\ IdleRenderer
  /\ object = FreshObject

Link(this, portal) ==
  /\ portals' = link(portals, this, portal)
  /\ call' = [op |-> "link", this |-> this, portal |-> portal,
              before |-> portals]
  /\ ret' = None
  /\ UNCHANGED <<rvars, object>>

NextLink == \E this, portal \in PortalIds : Link(this, portal)

SpecLink == InitLink /\ [][NextLink]_vars

(***************************************************************************)
(* SpecLifetime: three portals that are linked, disposed and given a       *)
(* stencil reference value                                                 *)
(***************************************************************************)
Dispose(this) ==
  /\ portals' = dispose(portals, this)
  /\ call' = [op |-> "dispose", this |-> this, before |-> portals]
  /\ ret' = None
  /\ UNCHANGED <<rvars, object>>

\* the reference values a caller hands to setStencilRef: the value the
\* constructor sets, and one that no level of render() stamps
StencilRefs == {1, MaxRecursion + 2}

\* portal.setStencilRef(ref)
setStencilRef(ps, this, ref) ==
  [ps EXCEPT ![this].material.stencilRef = ref]

SetStencilRef(this, ref) ==
  /\ portals' = setStencilRef(portals, this, ref)
  /\ call' = [op |-> "setStencilRef", this |-> this, ref |-> ref,
              before |-> portals]
  /\ ret' = None
  /\ UNCHANGED <<rvars, object>>

NextLifetime ==
  \/ \E this, portal \in PortalIds : Link(this, portal)
  \/ \E this \in PortalIds : Dispose(this)
  \/ \E this \in PortalIds, ref \in StencilRefs : SetStencilRef(this, ref)

SpecLifetime == InitLink /\ [][NextLifetime]_vars

(***************************************************************************)
(* SpecMath: two posed portals and the queries made of them                *)
(***************************************************************************)
InitMath ==
  /\ \E pa, pb \in Poses, sa \in Sizes :
       \E ra \in Residues(pa[2]), rb \in Residues(pb[2]) :
         portals = [id \in PortalIds |->
                      IF id = "A" THEN Portal(sa[1], sa[2], pa[1], pa[2], ra)
                      ELSE IF id = "B" THEN Portal(100, 200, pb[1], pb[2], rb)
                      ELSE DefaultPortal]
  /\ call = NoCall
  /\ ret = None
  /\ IdleRenderer
  /\ object = FreshObject

\* the queries are made of a fresh pair or of a pair that was just linked
Ready == call.op \in {"none", "link"}

LinkPair ==
  /\ call.op = "none"
  /\ \E this, portal \in {"A", "B"} : this # portal /\ Link(this, portal)

CallGetDestinationCameraTransform ==
  /\ Ready
  /\ \E this \in {"A", "B"}, vp \in Points, vq \in ViewerOrientations :
       /\ call' = [op |-> "getDestinationCameraTransform", this |-> this,
                   viewerPosition |-> vp, viewerQuaternion |-> vq]
       /\ ret' = getDestinationCameraTransform(portals, this, vp, vq)
  /\ UNCHANGED <<portals, rvars, object>>

CallTransformPointThroughPortal ==
  /\ Ready
  /\ \E src, dst \in {"A", "B"}, p \in Points :
       /\ call' = [op |-> "transformPointThroughPortal", point |-> p,
                   sourcePortal |-> PoseOf(portals, src),
                   destPortal |-> PoseOf(portals, dst)]
       /\ ret' = transformPointThroughPortal(p, PoseOf(portals, src),
                                             PoseOf(portals, dst))
  /\ UNCHANGED <<portals, rvars, object>>

CallGetPortalCrossingState ==
  /\ Ready
  /\ \E this \in {"A", "B"}, p \in GridPoints, r \in Radii :
       \E rounding \in Roundings(ExactNormal(portals[this])) :
         /\ call' = [op |-> "getPortalCrossingState", objectPosition |-> p,
                     objectRadius |-> r,
                     portalPlane |-> getPlane(portals, this),
                     rounding |-> rounding]
         /\ ret' = getPortalCrossingState(p, r, getPlane(portals, this),
                                          rounding)
  /\ UNCHANGED <<portals, rvars, object>>

CallIsPointInBounds ==
  /\ Ready
  /\ \E this \in {"A", "B"}, p \in Points, m \in Margins :
       \E roundingX, roundingY \in
            Roundings(ExactQuaternion(portals[this])) :
         /\ call' = [op |-> "isPointInBounds", this |-> this, point |-> p,
                     margin |-> m, roundingX |-> roundingX,
                     roundingY |-> roundingY]
         /\ ret' = isPointInBounds(portals, this, p, m, roundingX, roundingY)
  /\ UNCHANGED <<portals, rvars, object>>

NextMath ==
  \/ LinkPair
  \/ CallGetDestinationCameraTransform
  \/ CallTransformPointThroughPortal
  \/ CallGetPortalCrossingState
  \/ CallIsPointInBounds

SpecMath == InitMath /\ [][NextMath]_vars

(***************************************************************************)
(* SpecRender: PortalRenderer.render() over a registry of two worlds       *)
(***************************************************************************)
\* a portal as it stands in world scene sc; attached: scene.add(portal.mesh)
Placed(portal, sc, attached) ==
  [portal EXCEPT !.scene = sc,
                 !.meshParent = IF attached THEN sc ELSE None]

DoorA == Portal(100, 200, <<0, 0, 0>>, Identity, FALSE)
DoorC == Portal(100, 200, <<200, 0, 0>>, Identity, FALSE)
\* B as the demo builds its inner portal: facing back at A's side
DoorB == Portal(100, 200, <<0, 0, 1000>>, flipY, TRUE)
\* B built facing +Z and turned afterwards by portal.quaternion.copy(flipY)
\* with no updateMesh(): the cached normal still points along +Z
DoorBTurned ==
  [Portal(100, 200, <<0, 0, 1000>>, Identity, FALSE)
     EXCEPT !.quaternion = flipY, !.quaternionResidue = TRUE]

Heap(a, b, c) ==
  [id \in PortalIds |-> IF id = "A" THEN a ELSE IF id = "B" THEN b ELSE c]

World(sc, ps) == [scene |-> sc, portals |-> ps]

\* the arrangements of portals and worlds a frame is rendered in
Layouts(attached) ==
  LET a == Placed(DoorA, "S1", attached)
      b == Placed(DoorB, "S2", attached)
      bt == Placed(DoorBTurned, "S2", attached)
      c == Placed(DoorC, "S1", attached)
  IN { \* the demo: one portal per world, linked to each other
       [ portals |-> link(Heap(a, b, DoorC), "A", "B"),
         worlds |-> <<World("S1", <<"A">>), World("S2", <<"B">>)>> ],
       \* the same pair with B turned and its normal left behind
       [ portals |-> link(Heap(a, bt, DoorC), "A", "B"),
         worlds |-> <<World("S1", <<"A">>), World("S2", <<"B">>)>> ],
       \* two doors A and C in the first world; C.link(B) after A.link(B)
       [ portals |-> link(link(Heap(a, b, c), "A", "B"), "C", "B"),
         worlds |-> <<World("S1", <<"A", "C">>), World("S2", <<"B">>)>> ],
       \* C without link beside A
       [ portals |-> link(Heap(a, b, c), "A", "B"),
         worlds |-> <<World("S1", <<"C", "A">>), World("S2", <<"B">>)>> ],
       \* B is in no world of the registry
       [ portals |-> link(Heap(a, b, DoorC), "A", "B"),
         worlds |-> <<World("S1", <<"A">>), World("S2", <<>>)>> ],
       \* the demo's pair with A as the constructor leaves it: scene null
       [ portals |-> link(Heap(DoorA, Placed(DoorB, "S2", FALSE), DoorC),
                          "A", "B"),
         worlds |-> <<World("S1", <<"A">>), World("S2", <<"B">>)>> ] }

\* the poses of the caller's camera: in front of A and C, behind them, and
\* in their plane
CameraPoses ==
  { [position |-> <<0, 100, 50>>, quaternion |-> Identity],
    [position |-> <<0, 100, -50>>, quaternion |-> flipY],
    [position |-> <<0, 100, 0>>, quaternion |-> Identity] }

InitRender ==
  /\ \E attached \in BOOLEAN : \E l \in Layouts(attached) :
       /\ portals = l.portals
       /\ worlds = l.worlds
  /\ \E n \in 0..MaxRecursion : options = [maxRecursion |-> n]
  /\ call = NoCall
  /\ ret = None
  /\ \E left \in {0, 1} :
       \* the buffers are clean or as a draw call before the frame left them
       renderer = [autoClear |-> TRUE, stencil |-> [p \in Pixels |-> left],
                   colour |-> [p \in Pixels |-> left],
                   depth |-> [p \in Pixels |-> left]]
  /\ cameras = [main |-> Camera(<<0, 0, 0>>, Identity),
                portal |-> Camera(<<0, 0, 0>>, Identity)]
  /\ sceneMaterial = [sc \in Scenes |-> DefaultMaterial]
  /\ stack = <<>>
  /\ passes = <<>>
  /\ skipped = <<>>
  /\ pc = "idle"
  /\ saved = TRUE
  /\ frames = 0
  /\ object = FreshObject

Gpu ==
  [renderer |-> renderer, sceneMaterial |-> sceneMaterial,
   portals |-> portals, passes |-> passes]

SetGpu(g) ==
  /\ renderer' = g.renderer
  /\ sceneMaterial' = g.sceneMaterial
  /\ portals' = g.portals
  /\ passes' = g.passes

Top == stack[Len(stack)]
CurrentPortal(f) == worlds[f.world].portals[f.i]
LoopDone(f) ==
  \/ depthExhausted(f.depth, options.maxRecursion)
  \/ f.i > Len(worlds[f.world].portals)

\* render(camera, currentWorld, allWorlds) up to the call of _renderPortals
RenderCall ==
  /\ pc = "idle"
  /\ \E w \in 1..Len(worlds), pose \in CameraPoses :
       /\ call' = [op |-> "render", currentWorld |-> w, camera |-> pose,
                   autoClear |-> renderer.autoClear,
                   before |-> [sceneMaterial |-> sceneMaterial,
                               portals |-> portals]]
       /\ cameras' = [cameras EXCEPT
                        !.main = Camera(pose.position, pose.quaternion)]
       /\ stack' = <<[camera |-> "main", world |-> w, depth |-> 0, i |-> 1]>>
  /\ saved' = renderer.autoClear
  /\ renderer' = clear([renderer EXCEPT !.autoClear = FALSE])
  /\ passes' = <<Entry("clear", None, 0, None, None)>>
  /\ skipped' = <<>>
  /\ pc' = "render"
  /\ ret' = None
  /\ UNCHANGED <<object, portals, options, worlds, sceneMaterial, frames>>

\* render() as one of the first MaxFrames calls made on the PortalRenderer
RenderBegin ==
  /\ frames < MaxFrames
  /\ RenderCall

\* one turn of the loop of _renderPortals that ends in `continue`
SkipPortal ==
  /\ pc = "render" /\ ~LoopDone(Top)
  /\ LET f == Top
         portal == CurrentPortal(f)
         decisions ==
           {portalDecision(portals, worlds, cameras[f.camera].position,
                           portal, rounding) :
              rounding \in Roundings(ExactNormal(portals[portal]))}
     IN /\ \E decision \in decisions \ {"render"} :
             skipped' = Append(skipped, [portal |-> portal, depth |-> f.depth,
                                        reason |-> decision])
        /\ stack' = [stack EXCEPT ![Len(stack)].i = @ + 1]
  /\ UNCHANGED <<object, portals, call, ret, renderer, options, cameras, worlds,
                 sceneMaterial, passes, pc, saved, frames>>

\* one turn of the loop up to the recursive call: stencil pass, portal
\* camera, oblique projection (\E over a singleton names a value)
EnterPortal ==
  /\ pc = "render" /\ ~LoopDone(Top)
  /\ \E f \in {Top} : \E cam \in {cameras[f.camera]} :
       \E portal \in {CurrentPortal(f)} :
         /\ \E rounding \in Roundings(ExactNormal(portals[portal])) :
              portalDecision(portals, worlds, cam.position, portal, rounding)
                = "render"
         /\ LET scene == portals[portal].scene
                drawn == IF scene = None THEN {}
                         ELSE {q \in PortalIds : portals[q].meshParent = scene}
                                \cup {portal}
            IN \E cover \in Covers(drawn) :
                 \E g \in {renderPortalStencil(
                             Gpu, Entry("mask", portal, f.depth, f.camera, cam),
                             portal, f.depth + 1, cover)} : SetGpu(g)
         /\ \E destPortal \in {portals[portal].linkedPortal} :
              \E destTransform \in
                   {getDestinationCameraTransform(portals, portal,
                                                  cam.position,
                                                  cam.quaternion)} :
                /\ cameras' =
                     [cameras EXCEPT
                        !.portal =
                          [position |-> destTransform.position,
                           quaternion |-> destTransform.quaternion,
                           projection |->
                             Append(cam.projection,
                                    negate(getPlane(portals, destPortal)))]]
                /\ stack' = Append(stack,
                                   [camera |-> "portal",
                                    world |-> findDestWorld(worlds, destPortal),
                                    depth |-> f.depth + 1, i |-> 1])
  /\ UNCHANGED <<object, call, ret, options, worlds, skipped, pc, saved, frames>>

\* a nested _renderPortals returns; the caller renders the destination
\* world through the stencil and goes on to its next portal
ReturnToCaller ==
  /\ pc = "render" /\ Len(stack) >= 2 /\ LoopDone(Top)
  /\ \E f \in {stack[Len(stack) - 1]} : \E scene \in {worlds[Top.world].scene} :
       \E entry \in {Entry("dest", CurrentPortal(f), f.depth, "portal",
                           cameras["portal"])} :
         /\ \E g \in {renderSceneWithStencilTest(Gpu, entry, scene,
                                                 f.depth + 1, "equal")} :
              SetGpu(g)
         /\ stack' = Append(SubSeq(stack, 1, Len(stack) - 2),
                            [f EXCEPT !.i = @ + 1])
  /\ UNCHANGED <<object, call, ret, options, cameras, worlds, skipped, pc, saved,
                 frames>>

\* the outermost _renderPortals returns; render() draws the current world
\* and restores autoClear
FinishRender ==
  /\ pc = "render" /\ Len(stack) = 1 /\ LoopDone(Top)
  /\ \E g \in {renderSceneWithStencilTest(
                  Gpu, Entry("world", None, 0, "main", cameras["main"]),
                  worlds[Top.world].scene, worldPassRef, "notequal")} :
       /\ renderer' = restoreAutoClear(g.renderer, saved, FALSE)
       /\ sceneMaterial' = g.sceneMaterial
       /\ portals' = g.portals
       /\ passes' = g.passes
  /\ stack' = <<>>
  /\ pc' = "idle"
  /\ frames' = frames + 1
  /\ UNCHANGED <<object, call, ret, options, cameras, worlds, skipped, saved>>

RenderStep == SkipPortal \/ EnterPortal \/ ReturnToCaller \/ FinishRender

NextRender ==
  \/ RenderBegin
  \/ SkipPortal
  \/ EnterPortal
  \/ ReturnToCaller
  \/ FinishRender

SpecRender == InitRender /\ [][NextRender]_vars

\* render() is one synchronous call: once begun it runs on
SpecRenderFair == SpecRender /\ WF_vars(RenderStep)

(***************************************************************************)
(* SpecFrame: render() and renderSimple() on a renderer whose draw calls   *)
(* can throw                                                               *)
(***************************************************************************)
InitFrame ==
  /\ \E attached \in BOOLEAN : \E l \in Layouts(attached) :
       /\ portals = l.portals
       /\ worlds = l.worlds
  /\ \E n \in 0..MaxRecursion : options = [maxRecursion |-> n]
  /\ \E autoClear \in BOOLEAN :
       /\ renderer = [autoClear |-> autoClear, stencil |-> [p \in Pixels |-> 0],
                      colour |-> [p \in Pixels |-> 0],
                 depth |-> [p \in Pixels |-> 0]]
       /\ saved = autoClear
  /\ call = NoCall
  /\ ret = None
  /\ cameras = [main |-> Camera(<<0, 0, 0>>, Identity),
                portal |-> Camera(<<0, 0, 0>>, Identity)]
  /\ sceneMaterial = [sc \in Scenes |-> DefaultMaterial]
  /\ stack = <<>>
  /\ passes = <<>>
  /\ skipped = <<>>
  /\ pc = "idle"
  /\ frames = 0
  /\ object = FreshObject

GpuWithCameras ==
  [renderer |-> renderer, sceneMaterial |-> sceneMaterial,
   portals |-> portals, passes |-> passes, cameras |-> cameras]

\* the portals whose mask rectangle a mask pass for `portal` draws
Drawn(ps, portal) ==
  IF ps[portal].scene = None THEN {}
  ELSE {q \in PortalIds : ps[q].meshParent = ps[portal].scene} \cup {portal}

\* the scenes a caller hands to renderSimple as currentScene for `portal`:
\* the scene the portal names, or, its scene being null, the scene of the
\* world that lists it
CurrentScenes(portal) ==
  IF portals[portal].scene # None THEN {portals[portal].scene}
  ELSE {worlds[w].scene :
          w \in {v \in 1..Len(worlds) : portal \in Range(worlds[v].portals)}}

\* one call of renderSimple, to its return or to its throw, as the first
\* call made on the PortalRenderer
RenderSimple ==
  /\ pc = "idle" /\ frames < MaxFrames /\ call.op = "none"
  /\ \E pose \in CameraPoses, portal \in PortalIds, throwAt \in ThrowPoints :
       \E currentScene \in CurrentScenes(portal) :
         \E destinationScene \in Scenes \ {currentScene} :
           \E cover \in Covers(IF portals[portal].linkedPortal = None
                                  \/ throwAt = "mask"
                               THEN {}
                               ELSE Drawn(portals, portal)) :
             /\ throwAt \in {"mask", "dest"} =>
                  portals[portal].linkedPortal # None
             /\ throwAt = "mask" => portals[portal].scene # None
             /\ call' = [op |-> "renderSimple", camera |-> pose,
                         currentScene |-> currentScene,
                         destinationScene |-> destinationScene,
                         portal |-> portal, autoClear |-> renderer.autoClear,
                         before |-> [sceneMaterial |-> sceneMaterial,
                                     portals |-> portals]]
             /\ ret' = IF throwAt = "none" THEN None ELSE "error"
             /\ \E g \in {renderSimple(GpuWithCameras,
                                        Camera(pose.position, pose.quaternion),
                                        currentScene, destinationScene, portal,
                                        cover, throwAt)} :
                  /\ SetGpu(g)
                  /\ cameras' = g.cameras
             /\ pc' = IF throwAt = "none" THEN "idle" ELSE "threw"
  /\ skipped' = <<>>
  /\ frames' = frames + 1
  /\ UNCHANGED <<object, options, worlds, stack, saved>>

\* what render() leaves when a draw call threw: the finally block ran and
\* the error goes to the caller, who makes no further call
Unwind(g) ==
  /\ renderer' = restoreAutoClear(g.renderer, saved, TRUE)
  /\ sceneMaterial' = g.sceneMaterial
  /\ portals' = g.portals
  /\ passes' = g.passes
  /\ stack' = <<>>
  /\ pc' = "threw"
  /\ ret' = "error"
  /\ frames' = frames + 1
  /\ UNCHANGED <<object, call, options, cameras, worlds, skipped, saved>>

\* the draw call of _renderPortalStencil throws
ThrowInMask ==
  /\ pc = "render" /\ ~LoopDone(Top)
  /\ \E f \in {Top} : \E portal \in {CurrentPortal(f)} :
       /\ \E rounding \in Roundings(ExactNormal(portals[portal])) :
            portalDecision(portals, worlds, cameras[f.camera].position, portal,
                           rounding) = "render"
       /\ portals[portal].scene # None
       /\ Unwind(renderPortalStencilThrows(Gpu, portal, f.depth + 1))

\* the draw call of a destination pass throws
ThrowInDest ==
  /\ pc = "render" /\ Len(stack) >= 2 /\ LoopDone(Top)
  /\ Unwind(renderSceneWithStencilTestThrows(
              Gpu, worlds[Top.world].scene, stack[Len(stack) - 1].depth + 1,
              "equal"))

\* the draw call of the current-world pass throws
ThrowInWorld ==
  /\ pc = "render" /\ Len(stack) = 1 /\ LoopDone(Top)
  /\ Unwind(renderSceneWithStencilTestThrows(
              Gpu, worlds[Top.world].scene, worldPassRef, "notequal"))

NextFrame ==
  \/ RenderBegin
  \/ SkipPortal
  \/ EnterPortal
  \/ ReturnToCaller
  \/ FinishRender
  \/ ThrowInMask
  \/ ThrowInDest
  \/ ThrowInWorld
  \/ RenderSimple

SpecFrame == InitFrame /\ [][NextFrame]_vars

(***************************************************************************)
(* SpecSession: successive frames, render() after render() or after        *)
(* renderSimple(), on the demo's pair of worlds and on a first world with  *)
(* two doors of which the far one is in view through the near one          *)
(***************************************************************************)
\* a door on the far wall of the first world, facing back at the near one
DoorFar == Portal(100, 200, <<0, 0, 500>>, flipY, TRUE)

SessionLayouts(attached) ==
  LET a == Placed(DoorA, "S1", attached)
      b == Placed(DoorB, "S2", attached)
      c == Placed(DoorC, "S1", attached)
      far == Placed(DoorFar, "S1", attached)
  IN { \* the demo: one portal per world, linked to each other
       [ portals |-> link(Heap(a, b, DoorC), "A", "B"),
         worlds |-> <<World("S1", <<"A">>), World("S2", <<"B">>)>> ],
       \* A on the far wall, in view through C from the second world
       [ portals |-> link(link(Heap(far, b, c), "A", "B"), "C", "B"),
         worlds |-> <<World("S1", <<"A", "C">>), World("S2", <<"B">>)>> ] }

InitSession ==
  /\ \E attached \in BOOLEAN : \E l \in SessionLayouts(attached) :
       /\ portals = l.portals
       /\ worlds = l.worlds
  /\ \E n \in 0..MaxRecursion : options = [maxRecursion |-> n]
  /\ renderer = [autoClear |-> TRUE, stencil |-> [p \in Pixels |-> 0],
                 colour |-> [p \in Pixels |-> 0],
                 depth |-> [p \in Pixels |-> 0]]
  /\ saved = TRUE
  /\ call = NoCall
  /\ ret = None
  /\ cameras = [main |-> Camera(<<0, 0, 0>>, Identity),
                portal |-> Camera(<<0, 0, 0>>, Identity)]
  /\ sceneMaterial = [sc \in Scenes |-> DefaultMaterial]
  /\ stack = <<>>
  /\ passes = <<>>
  /\ skipped = <<>>
  /\ pc = "idle"
  /\ frames = 0
  /\ object = FreshObject

\* render() as the first call or as the call after a frame
RenderNextFrame ==
  /\ frames < MaxFrames + 1
  /\ RenderCall

NextSession ==
  \/ RenderNextFrame
  \/ RenderSimple
  \/ SkipPortal
  \/ EnterPortal
  \/ ReturnToCaller
  \/ FinishRender

SpecSession == InitSession /\ [][NextSession]_vars

(***************************************************************************)
(* SpecPose: a portal whose position and quaternion are written to, with   *)
(* updateMesh() called or not, and the queries that read its plane         *)
(***************************************************************************)
\* the positions written to a portal
PosePositions == {<<0, 0, 0>>, <<0, 0, 100>>, <<50, 0, 0>>}

\* the points the plane queries are asked about
PosePoints == {<<0, 0, 50>>, <<50, 100, 0>>, <<0, 0, 100>>}

InitPose ==
  /\ portals = [id \in PortalIds |-> DefaultPortal]
  /\ call = NoCall
  /\ ret = None
  /\ IdleRenderer
  /\ object = FreshObject

\* portal.position.copy(position)
SetPosition(this) ==
  /\ \E position \in PosePositions :
       /\ portals' = [portals EXCEPT ![this].position = position]
       /\ call' = [op |-> "position.copy", this |-> this, value |-> position]
  /\ ret' = None
  /\ UNCHANGED <<rvars, object>>

\* portal.quaternion.copy(quaternion)
SetQuaternion(this) ==
  /\ \E quaternion \in Orientations : \E residue \in Residues(quaternion) :
       /\ portals' = [portals EXCEPT ![this].quaternion = quaternion,
                                     ![this].quaternionResidue = residue]
       /\ call' = [op |-> "quaternion.copy", this |-> this,
                   value |-> quaternion, residue |-> residue]
  /\ ret' = None
  /\ UNCHANGED <<rvars, object>>

UpdateMesh(this) ==
  /\ portals' = updateMesh(portals, this)
  /\ call' = [op |-> "updateMesh", this |-> this]
  /\ ret' = None
  /\ UNCHANGED <<rvars, object>>

CallGetPlane(this) ==
  /\ call' = [op |-> "getPlane", this |-> this]
  /\ ret' = getPlane(portals, this)
  /\ UNCHANGED <<portals, rvars, object>>

CallIsPointInFront(this) ==
  /\ \E point \in PosePoints :
       \E rounding \in Roundings(ExactNormal(portals[this])) :
         /\ call' = [op |-> "isPointInFront", this |-> this, point |-> point,
                     rounding |-> rounding]
         /\ ret' = isPointInFront(portals, this, point, rounding)
  /\ UNCHANGED <<portals, rvars, object>>

CallGetSignedDistance(this) ==
  /\ \E point \in PosePoints :
       /\ call' = [op |-> "getSignedDistance", this |-> this, point |-> point]
       /\ ret' = getSignedDistance(portals, this, point)
  /\ UNCHANGED <<portals, rvars, object>>

NextPose ==
  \/ SetPosition("A")
  \/ SetQuaternion("A")
  \/ UpdateMesh("A")
  \/ CallGetPlane("A")
  \/ CallIsPointInFront("A")
  \/ CallGetSignedDistance("A")

SpecPose == InitPose /\ [][NextPose]_vars

(***************************************************************************)
(* SpecCrossing: one PortalCrossingObject that is moved, tested against    *)
(* portal planes, and disposed                                             *)
(***************************************************************************)
\* the positions the object is moved to
ObjectPositions == {<<0, 0, 0>>, <<0, 0, 50>>, <<0, 0, 100>>}

\* the portal planes handed to updateCrossing
PlaneNormals == {<<0, 0, 1>>, <<0, 0, -1>>}
PlanePoints == {<<0, 0, 0>>, <<0, 0, 50>>}

InitCrossing ==
  /\ portals = [id \in PortalIds |-> DefaultPortal]
  /\ call = NoCall
  /\ ret = None
  /\ IdleRenderer
  /\ \E kind \in MaterialKinds :
       object = PortalCrossingObject(<<0, 0, 0>>, Identity, kind)

\* the variants the object has created so far
Variants(o) == 2..Len(o.materials)

\* mesh.position.copy(position)
MoveObject ==
  /\ \E position \in ObjectPositions :
       /\ object' = [object EXCEPT !.position = position]
       /\ call' = [op |-> "mesh.position.copy", value |-> position,
                   before |-> object]
  /\ ret' = None
  /\ UNCHANGED <<portals, rvars>>

UpdateCrossing ==
  /\ Len(object.materials) <= 2 * MaxRebuilds - 1
  /\ \E portalNormal \in PlaneNormals, portalPoint \in PlanePoints,
        objectRadius \in Radii :
       /\ call' = [op |-> "updateCrossing", portalNormal |-> portalNormal,
                   portalPoint |-> portalPoint, objectRadius |-> objectRadius,
                   before |-> object]
       /\ ret' = isCrossing(object, portalNormal, portalPoint, objectRadius)
       /\ object' = updateCrossing(object, portalNormal, portalPoint,
                                   objectRadius)
  /\ UNCHANGED <<portals, rvars>>

DisposeObject ==
  /\ object' = disposeObject(object)
  /\ call' = [op |-> "dispose", before |-> object]
  /\ ret' = None
  /\ UNCHANGED <<portals, rvars>>

NextCrossing ==
  \/ MoveObject
  \/ UpdateCrossing
  \/ DisposeObject

SpecCrossing == InitCrossing /\ [][NextCrossing]_vars

(***************************************************************************)
(* SpecSync: a linked pair of posed portals, a camera transform asked of   *)
(* one of them, and an object whose clone is synchronised through them     *)
(***************************************************************************)
\* the poses of the object's mesh
ObjectPoses ==
  { <<(<<0, 0, 0>>), Identity>>,
    <<(<<0, 0, 50>>), (<<1, 1, 1, 1>>)>>,
    <<(<<50, 100, 0>>), flipY>> }

\* (the portals are built of the least angles that give their orientations)
InitSync ==
  /\ \E pa, pb \in Poses :
       portals = link([id \in PortalIds |->
                         IF id = "A"
                           THEN Portal(100, 200, pa[1], pa[2], pa[2] # Identity)
                         ELSE IF id = "B"
                           THEN Portal(100, 200, pb[1], pb[2], pb[2] # Identity)
                         ELSE DefaultPortal],
                      "A", "B")
  /\ \E po \in ObjectPoses :
       object = PortalCrossingObject(po[1], po[2], "MeshStandardNodeMaterial")
  /\ call = NoCall
  /\ ret = None
  /\ IdleRenderer

\* crossingObject.syncClonePosition(portal.position, portal.quaternion,
\* linked.position, linked.quaternion)
SyncClonePosition ==
  /\ \E this \in {"A", "B"} :
       \E src \in {PoseOf(portals, this)} :
         \E dest \in {PoseOf(portals, portals[this].linkedPortal)} :
           /\ call' = [op |-> "syncClonePosition", this |-> this,
                       sourcePortal |-> src, destPortal |-> dest,
                       before |-> object]
           /\ object' = syncClonePosition(object, src.position,
                                          src.quaternion, dest.position,
                                          dest.quaternion)
  /\ ret' = None
  /\ UNCHANGED <<portals, rvars>>

\* one query of the camera transform, or one crossing test followed by one
\* synchronisation of the clone
NextSync ==
  \/ CallGetDestinationCameraTransform
  \/ (call.op = "none" /\ UpdateCrossing)
  \/ (call.op = "updateCrossing" /\ SyncClonePosition)

SpecSync == InitSync /\ [][NextSync]_vars

(***************************************************************************)
(* SpecOblique: computeObliqueProjectionMatrix on a posed camera           *)
(*                                                                         *)
(* Matrix elements are exact rationals <<numerator, denominator>> in       *)
(* lowest terms with a positive denominator; a Matrix4 is its `elements`   *)
(* array, column-major, indexed 0..15.  Lengths stay in hundredths.        *)
(***************************************************************************)
RECURSIVE GCD(_, _)
GCD(a, b) == IF b = 0 THEN a ELSE GCD(b, a % b)

\* the number n / d for d # 0
Rat(n, d) ==
  LET g == GCD(Abs(n), Abs(d))
  IN <<(IF d < 0 THEN -n ELSE n) \div g, Abs(d) \div g>>

RatOf(n) == <<n, 1>>
RAdd(a, b) == Rat(a[1] * b[2] + b[1] * a[2], a[2] * b[2])
RMul(a, b) == Rat(a[1] * b[1], a[2] * b[2])
RDiv(a, b) == Rat(a[1] * b[2], a[2] * b[1])
RNeg(a) == <<-a[1], a[2]>>
\* Math.sign
RSign(a) == RatOf(IF a[1] > 0 THEN 1 ELSE IF a[1] < 0 THEN -1 ELSE 0)

\* the clip-space depth range a projection matrix is built for: -1..1 for
\* WebGLCoordinateSystem, 0..1 for WebGPUCoordinateSystem
CoordinateSystems == {"WebGL", "WebGPU"}

\* Matrix4.makePerspective(left, right, top, bottom, near, far, coordinateSystem)
makePerspective(left, right, top, bottom, near, far, coordinateSystem) ==
  LET x == RDiv(RMul(RatOf(2), near), RAdd(right, RNeg(left)))
      y == RDiv(RMul(RatOf(2), near), RAdd(top, RNeg(bottom)))
      a == RDiv(RAdd(right, left), RAdd(right, RNeg(left)))
      b == RDiv(RAdd(top, bottom), RAdd(top, RNeg(bottom)))
      depth == RAdd(far, RNeg(near))
      c == IF coordinateSystem = "WebGL"
           THEN RNeg(RDiv(RAdd(far, near), depth))
           ELSE RNeg(RDiv(far, depth))
      d == IF coordinateSystem = "WebGL"
           THEN RDiv(RMul(RatOf(-2), RMul(far, near)), depth)
           ELSE RDiv(RNeg(RMul(far, near)), depth)
  IN [i \in 0..15 |->
        CASE i = 0 -> x [] i = 5 -> y [] i = 8 -> a [] i = 9 -> b
          [] i = 10 -> c [] i = 14 -> d [] i = 11 -> RatOf(-1)
          [] OTHER -> RatOf(0)]

\* new PerspectiveCamera(fov, aspect, near, far) set at a pose, after
\* updateProjectionMatrix() and updateMatrixWorld(); tanHalfFov is
\* tan(fov / 2), matrixWorldInverse is kept as the rigid motion it is
PerspectiveCamera(tanHalfFov, aspect, near, far, position, quaternion, coordinateSystem) ==
  LET top == RMul(RatOf(near), tanHalfFov)
      height == RMul(RatOf(2), top)
      width == RMul(aspect, height)
      left == RDiv(RNeg(width), RatOf(2))
  IN [ position |-> position, quaternion |-> quaternion,
       near |-> near, far |-> far, coordinateSystem |-> coordinateSystem,
       matrixWorldInverse |->
         [ rotation |-> invert(quaternion),
           translation |->
             applyQuaternion(sub(<<0, 0, 0>>, position), invert(quaternion)) ],
       projectionMatrix |->
         makePerspective(left, RAdd(left, width), top, RAdd(top, RNeg(height)),
                         RatOf(near), RatOf(far), coordinateSystem) ]

\* Plane.applyMatrix4(matrix) for the matrix of a rigid motion: the normal
\* is rotated, the constant is minus the moved coplanar point along it
applyMatrix4(plane, matrix) ==
  LET normal == applyQuaternion(plane.normal, matrix.rotation)
      coplanar == <<-plane.constant * plane.normal[1],
                    -plane.constant * plane.normal[2],
                    -plane.constant * plane.normal[3]>>
      referencePoint == add(applyQuaternion(coplanar, matrix.rotation),
                            matrix.translation)
  IN [normal |-> normal, constant |-> -dot(referencePoint, normal)]

\* Vector4.dot
dot4(a, b) ==
  RAdd(RAdd(RMul(a[1], b[1]), RMul(a[2], b[2])),
       RAdd(RMul(a[3], b[3]), RMul(a[4], b[4])))

\* computeObliqueProjectionMatrix(camera, clipPlane): the returned matrix and
\* the camera as the call leaves it
computeObliqueProjectionMatrix(camera, clipPlane) ==
  LET projectionMatrix == camera.projectionMatrix
      clipPlaneCamera == applyMatrix4(clipPlane, camera.matrixWorldInverse)
      clipPlaneVec == <<RatOf(clipPlaneCamera.normal[1]),
                        RatOf(clipPlaneCamera.normal[2]),
                        RatOf(clipPlaneCamera.normal[3]),
                        RatOf(clipPlaneCamera.constant)>>
      q == << RDiv(RAdd(RSign(clipPlaneVec[1]), projectionMatrix[8]),
                   projectionMatrix[0]),
              RDiv(RAdd(RSign(clipPlaneVec[2]), projectionMatrix[9]),
                   projectionMatrix[5]),
              RatOf(-1),
              RDiv(RAdd(RatOf(1), projectionMatrix[10]), projectionMatrix[14]) >>
      scale == RDiv(RatOf(2), dot4(clipPlaneVec, q))
      c == [k \in 1..4 |-> RMul(clipPlaneVec[k], scale)]
  IN [matrix |-> [projectionMatrix EXCEPT ![2] = c[1], ![6] = c[2],
                                          ![10] = RAdd(c[3], RatOf(1)),
                                          ![14] = c[4]],
      camera |-> camera]

\* the plane at distance dist in front of the camera, parallel to its near
\* plane, in world space; facing is -1 for the normal along the view
\* direction and 1 for the normal back at the camera
PlaneAhead(camera, dist, facing) ==
  LET normal == applyQuaternion(<<0, 0, facing>>, camera.quaternion)
      ahead == applyQuaternion(<<0, 0, -dist>>, camera.quaternion)
  IN [normal |-> normal, constant |-> -dot(add(camera.position, ahead), normal)]

NearPlane(camera) == PlaneAhead(camera, camera.near, -1)

\* the cameras of the demo: near 0.01 or 0.1, far 200, and a square, a
\* 2:1 and a 16:9 viewport
Nears == {1, 10}
Fars == {20000}
Aspects == {RatOf(1), RatOf(2), <<16, 9>>}
TanHalfFovs == {RatOf(1), <<1, 2>>}
ClipDistances == {1, 10, 50, 100}

InitOblique == InitLink

CallComputeObliqueProjectionMatrix ==
  /\ call.op = "none"
  /\ \E t \in TanHalfFovs, as \in Aspects, n \in Nears, f \in Fars,
        pose \in Poses, cs \in CoordinateSystems, dist \in ClipDistances,
        facing \in {-1, 1} :
       LET camera == PerspectiveCamera(t, as, n, f, pose[1], pose[2], cs)
           clipPlane == PlaneAhead(camera, dist, facing)
       IN /\ call' = [op |-> "computeObliqueProjectionMatrix",
                      camera |-> camera, clipPlane |-> clipPlane]
          /\ ret' = computeObliqueProjectionMatrix(camera, clipPlane)
  /\ UNCHANGED <<portals, rvars, object>>

NextOblique == CallComputeObliqueProjectionMatrix

SpecOblique == InitOblique /\ [][NextOblique]_vars

(***************************************************************************)
(* SpecTeleport: getPortalTeleportMatrix on two posed portals              *)
(***************************************************************************)
\* Matrix4.compose(position, quaternion, (1, 1, 1)): the sixteen elements,
\* column-major, elements[i] at place i + 1; on doubled quaternion
\* components x * (x + x) is X * X / 2
compose(position, quaternion) ==
  LET x == quaternion[1]
      y == quaternion[2]
      z == quaternion[3]
      w == quaternion[4]
      xx == x * x  xy == x * y  xz == x * z
      yy == y * y  yz == y * z  zz == z * z
      wx == w * x  wy == w * y  wz == w * z
  IN << 1 - (yy + zz) \div 2, (xy + wz) \div 2, (xz - wy) \div 2, 0,
        (xy - wz) \div 2, 1 - (xx + zz) \div 2, (yz + wx) \div 2, 0,
        (xz + wy) \div 2, (yz - wx) \div 2, 1 - (xx + yy) \div 2, 0,
        position[1], position[2], position[3], 1 >>

\* Vector3.applyMatrix4(m) for a matrix whose last row is (0, 0, 0, 1)
applyMatrix4ToPoint(v, e) ==
  << e[1] * v[1] + e[5] * v[2] + e[9] * v[3] + e[13],
     e[2] * v[1] + e[6] * v[2] + e[10] * v[3] + e[14],
     e[3] * v[1] + e[7] * v[2] + e[11] * v[3] + e[15] >>

\* getPortalTeleportMatrix(sourcePortal, destPortal)
getPortalTeleportMatrix(sourcePortal, destPortal) ==
  LET srcInverse == invert(sourcePortal.quaternion)
      rotationQuat == multiply(multiply(destPortal.quaternion, flipY),
                               srcInverse)
  IN compose(<<0, 0, 0>>, rotationQuat)

CallGetPortalTeleportMatrix ==
  /\ Ready
  /\ \E src, dst \in {"A", "B"} :
       /\ call' = [op |-> "getPortalTeleportMatrix",
                   sourcePortal |-> PoseOf(portals, src),
                   destPortal |-> PoseOf(portals, dst)]
       /\ ret' = getPortalTeleportMatrix(PoseOf(portals, src),
                                         PoseOf(portals, dst))
  /\ UNCHANGED <<portals, rvars, object>>

NextTeleport ==
  \/ LinkPair
  \/ CallGetPortalTeleportMatrix
  \/ CallTransformPointThroughPortal

SpecTeleport == InitMath /\ [][NextTeleport]_vars

(***************************************************************************)
(* Claims on the Portal entity and the transforms                          *)
(***************************************************************************)
Unlinked(ps, id) == ps[id].linkedPortal = None

\* C1: for distinct portals a and b that had no link, a.link(b) leaves
\* a.linkedPortal = b and b.linkedPortal = a, and the portals are then exactly
\* as b.link(a) would have left them.
C1_LinkBothWays ==
  call.op = "link" =>
    LET a == call.this
        b == call.portal
    IN (a # b /\ Unlinked(call.before, a) /\ Unlinked(call.before, b)) =>
         /\ portals[a].linkedPortal = b
         /\ portals[b].linkedPortal = a
         /\ portals = link(call.before, b, a)

C1_Witness ==
  /\ call.op = "link" /\ call.this = "A" /\ call.portal = "B"
  /\ Unlinked(call.before, "A") /\ Unlinked(call.before, "B")
  /\ portals["A"].linkedPortal = "B"
  /\ portals["B"].linkedPortal = "A"

\* C2: in every reachable state, a.linkedPortal = b implies
\* b.linkedPortal = a, for all portals a and b, also after re-linking.
C2_LinkSymmetry ==
  \A a, b \in PortalIds :
    portals[a].linkedPortal = b => portals[b].linkedPortal = a

\* C3: getDestinationCameraTransform on a portal without link returns the
\* viewer position and orientation it was given.
C3_UnlinkedPassthrough ==
  (call.op = "getDestinationCameraTransform" /\ Unlinked(portals, call.this))
    => /\ ret.position = call.viewerPosition
       /\ ret.quaternion = call.viewerQuaternion

C3_Witness ==
  /\ call.op = "getDestinationCameraTransform"
  /\ Unlinked(portals, call.this)
  /\ portals[call.this].position # <<0, 0, 0>>
  /\ portals[call.this].quaternion # Identity
  /\ call.viewerPosition = <<50, 0, -50>>
  /\ call.viewerQuaternion = flipY
  /\ ret = [position |-> <<50, 0, -50>>, quaternion |-> flipY]

\* the through-portal scenario: A at the origin with identity orientation
\* linked to B at (0, 0, 10) turned half a turn about the vertical axis,
\* viewer at (0, 1, -0.5) with identity orientation
ThroughPortalScenario ==
  /\ call.op = "getDestinationCameraTransform" /\ call.this = "A"
  /\ portals["A"].position = <<0, 0, 0>>
  /\ portals["A"].quaternion = Identity
  /\ portals["B"].position = <<0, 0, 1000>>
  /\ portals["B"].quaternion = flipY
  /\ portals["A"].linkedPortal = "B"
  /\ call.viewerPosition = <<0, 100, -50>>
  /\ call.viewerQuaternion = Identity

\* C4: in the through-portal scenario the result is position (0, 1, 9.5) and
\* an orientation that is the identity rotation.
C4_ThroughPortal ==
  ThroughPortalScenario =>
    /\ ret.position = <<0, 100, 950>>
    /\ SameRotation(ret.quaternion, Identity)
    /\ \A v \in {<<1, 0, 0>>, <<0, 1, 0>>, <<0, 0, 1>>} :
         applyQuaternion(v, ret.quaternion) = v

C4_Witness == ThroughPortalScenario /\ ret.position = <<0, 100, 950>>

\* C5: mapping a point from A to B and the result back from B to A gives the
\* point again, for every point and every pair of portal poses.
C5_RoundTrip ==
  call.op = "transformPointThroughPortal" =>
    transformPointThroughPortal(ret, call.destPortal, call.sourcePortal)
      = call.point

C5_Witness ==
  /\ call.op = "transformPointThroughPortal"
  /\ call.sourcePortal.quaternion = <<1, 1, 1, 1>>
  /\ call.destPortal.quaternion = <<2, 0, 0, 0>>
  /\ call.sourcePortal.position # call.destPortal.position
  /\ ret # call.point
  /\ transformPointThroughPortal(ret, call.destPortal, call.sourcePortal)
       = call.point

\* the signed distance of the object of a getPortalCrossingState call
CallDistance ==
  dot(call.portalPlane.normal, call.objectPosition) + call.portalPlane.constant

\* the distance the call computed is exactly d: no residue beside it
ComputedDistanceIs(d) == CallDistance = d /\ call.rounding = 0

\* C6 as stated: for every radius r, a signed distance of r gives
\* crossing = false, and a signed distance of 0 gives crossing = true with
\* inFront = behind = r.
C6_CrossingBoundary_AnyRadius ==
  call.op = "getPortalCrossingState" =>
    /\ ComputedDistanceIs(call.objectRadius) => ~ret.crossing
    /\ ComputedDistanceIs(0) =>
         /\ ret.crossing
         /\ ret.inFront = call.objectRadius
         /\ ret.behind = call.objectRadius

\* C6 amended: for every radius r >= 0 a signed distance of r gives
\* crossing = false; for every radius r > 0 a signed distance of 0 gives
\* crossing = true with inFront = behind = r.
C6_CrossingBoundary ==
  call.op = "getPortalCrossingState" =>
    /\ ComputedDistanceIs(call.objectRadius) => ~ret.crossing
    /\ (ComputedDistanceIs(0) /\ call.objectRadius > 0) =>
         /\ ret.crossing
         /\ ret.inFront = call.objectRadius
         /\ ret.behind = call.objectRadius

C6_Witness ==
  /\ call.op = "getPortalCrossingState"
  /\ call.objectRadius = 50
  /\ call.objectPosition # <<0, 0, 0>>
  /\ call.portalPlane.constant # 0
  /\ CallDistance = 0
  /\ ret.crossing /\ ret.inFront = 50 /\ ret.behind = 50

\* coordinates of the point of an isPointInBounds call along the portal's
\* own right and up axes; the call computed them with the residues
\* call.roundingX and call.roundingY
LocalX ==
  dot(sub(call.point, portals[call.this].position),
      applyQuaternion(<<1, 0, 0>>, portals[call.this].quaternion))
LocalY ==
  dot(sub(call.point, portals[call.this].position),
      applyQuaternion(<<0, 1, 0>>, portals[call.this].quaternion))

\* a portal of width 2 and height 3 at the origin with identity orientation:
\* the quaternion (0, 0, 0, 1), with no residue of a turn
BoundsScenario ==
  /\ call.op = "isPointInBounds" /\ call.this = "A"
  /\ portals["A"].width = 200 /\ portals["A"].height = 300
  /\ portals["A"].position = <<0, 0, 0>>
  /\ portals["A"].quaternion = Identity
  /\ ExactQuaternion(portals["A"])

\* C7: isPointInBounds(point, margin) is true exactly when, in the portal's
\* frame, |x| <= width/2 + margin and -margin <= y <= height + margin, limits
\* included; for the portal of width 2 and height 3, (1.0, 1.5, 0) with
\* margin 0 is inside, (1.01, 1.5, 0) with margin 0 is not, and (0, 3.01, 0)
\* with margin 0.1 is inside.
C7_BoundsTest ==
  /\ call.op = "isPointInBounds" =>
       (ret <=> /\ ~Greater(2 * Abs(LocalX),
                            AbsRounding(LocalX, call.roundingX),
                            portals[call.this].width + 2 * call.margin)
                /\ ~Less(LocalY, call.roundingY, -call.margin)
                /\ ~Greater(LocalY, call.roundingY,
                            portals[call.this].height + call.margin))
  /\ (BoundsScenario /\ call.point = <<100, 150, 0>> /\ call.margin = 0)
       => ret = TRUE
  /\ (BoundsScenario /\ call.point = <<101, 150, 0>> /\ call.margin = 0)
       => ret = FALSE
  /\ (BoundsScenario /\ call.point = <<0, 301, 0>> /\ call.margin = 10)
       => ret = TRUE

C7_Witness ==
  /\ BoundsScenario
  /\ call.point = <<101, 150, 0>> /\ call.margin = 0
  /\ ret = FALSE

(***************************************************************************)
(* Claims on PortalRenderer.render()                                       *)
(***************************************************************************)
\* render() has returned
Finished == pc = "idle" /\ call.op = "render"

PassesOfKind(kind) == {i \in 1..Len(passes) : passes[i].kind = kind}

\* two worlds with one portal each, the two linked to each other
MutualLoop ==
  /\ Len(worlds) = 2
  /\ Len(worlds[1].portals) = 1 /\ Len(worlds[2].portals) = 1
  /\ LET a == worlds[1].portals[1]
         b == worlds[2].portals[1]
     IN /\ a # b
        /\ portals[a].linkedPortal = b
        /\ portals[b].linkedPortal = a

\* no portal was passed over because the camera was not in front of it
AllInFront == \A i \in 1..Len(skipped) : skipped[i].reason # "behind"

\* C8: for two worlds whose single portals are linked in a mutual loop and
\* in front of every camera used, render() with maxRecursion = N terminates
\* and performs exactly N destination passes, one per depth 0..N-1.
C8_RecursionTermination ==
  /\ [](/\ Len(stack) <= options.maxRecursion + 1
        /\ (Finished /\ MutualLoop /\ AllInFront) =>
             /\ Cardinality(PassesOfKind("dest")) = options.maxRecursion
             /\ \A d \in 0..(options.maxRecursion - 1) :
                  Cardinality({i \in PassesOfKind("dest") :
                                 passes[i].depth = d}) = 1)
  /\ ((pc = "render") ~> (pc = "idle"))

C8_Witness ==
  /\ Finished /\ MutualLoop /\ AllInFront
  /\ options.maxRecursion >= 2
  /\ Cardinality(PassesOfKind("dest")) = options.maxRecursion
  /\ \E i, j \in PassesOfKind("dest") :
       passes[i].depth = 0 /\ passes[j].depth = options.maxRecursion - 1

\* the current-world pass of the frame: the last call on the renderer
WorldPass == passes[Len(passes)]

\* C9: with maxRecursion = 0, render() executes no stencil mask pass and no
\* destination pass, and every pixel of the frame passes the stencil test
\* of the current-world pass.
C9_NoPortalsAtDepthZero ==
  (Finished /\ options.maxRecursion = 0) =>
    /\ PassesOfKind("mask") = {}
    /\ PassesOfKind("dest") = {}
    /\ WorldPass.kind = "world"
    /\ WorldPass.painted = Pixels

\* a frame at maxRecursion = 0 in a world whose portal is linked, has its
\* destination world in the registry and the camera in front of it
C9_Witness ==
  /\ Finished /\ options.maxRecursion = 0
  /\ worlds[call.currentWorld].portals = <<"A">>
  /\ portalDecision(portals, worlds, call.camera.position, "A", 0) = "render"
  /\ Len(passes) = 2
  /\ WorldPass.kind = "world" /\ WorldPass.painted = Pixels
  /\ ~WorldPass.material.stencilWrite

\* the pixels stamped by a mask pass of the top level
TopLevelStamped ==
  UNION {passes[i].stamped :
           i \in {j \in PassesOfKind("mask") : passes[j].depth = 0}}

\* the pixels painted by a destination pass
PortalPainted == UNION {passes[i].painted : i \in PassesOfKind("dest")}

\* C10: the current world is drawn with a stencil test requiring inequality
\* to the top-level marker 1, so it paints exactly the pixels no top-level
\* mask stamped and leaves the pixels painted by a portal pass untouched.
C10_WorldPassSparesPortals ==
  Finished =>
    /\ WorldPass.kind = "world"
    /\ WorldPass.stencilFunc = "notequal"
    /\ WorldPass.stencilRef = 1
    /\ WorldPass.painted = Pixels \ TopLevelStamped
    /\ WorldPass.painted \cap PortalPainted = {}

\* the mask passes before pass i of the same portal at the same depth
MaskPassesOf(i) ==
  {m \in PassesOfKind("mask") : /\ m < i
                                /\ passes[m].portal = passes[i].portal
                                /\ passes[m].depth = passes[i].depth}

\* the mask pass that belongs to destination pass i: the last of them, or 0
\* when the portal got no mask pass (its scene is null)
MaskPassOf(i) ==
  IF MaskPassesOf(i) = {} THEN 0
  ELSE CHOOSE m \in MaskPassesOf(i) : \A n \in MaskPassesOf(i) : n <= m

\* the pixels the mask of the portal of destination pass i stamped
OwnMask(i) == IF MaskPassOf(i) = 0 THEN {} ELSE passes[MaskPassOf(i)].own

\* C11: the destination pass of a portal rendered at depth d is drawn with
\* the stencil test Equal to the marker d + 1 and paints only pixels that the
\* mask of this same portal stamped, also when the current world holds
\* several rendered portals.
C11_DestPassInsideOwnMask ==
  \A i \in PassesOfKind("dest") :
    /\ passes[i].stencilFunc = "equal"
    /\ passes[i].stencilRef = passes[i].depth + 1
    /\ passes[i].painted \subseteq OwnMask(i)

\* the distance isPointInFront computes for the camera at camPos
CameraDistance(q, camPos) ==
  dot(sub(camPos, portals[q].position), portals[q].normal)

\* the computed distance is <= 0 whatever the residue: below 0, or 0 with an
\* exact normal
NotInFront(q, camPos) ==
  \/ CameraDistance(q, camPos) < 0
  \/ CameraDistance(q, camPos) = 0 /\ ExactNormal(portals[q])

\* the three reasons for which the loop of _renderPortals passes a portal
\* over, for the camera at camPos
SkipCondition(q, camPos) ==
  \/ portals[q].linkedPortal = None
  \/ NotInFront(q, camPos)
  \/ \A w \in 1..Len(worlds) :
       portals[q].linkedPortal \notin Range(worlds[w].portals)

\* none of the three reasons holds, whatever the residue
RenderCondition(q, camPos) ==
  /\ portals[q].linkedPortal # None
  /\ CameraDistance(q, camPos) > 0
  /\ \E w \in 1..Len(worlds) :
       portals[q].linkedPortal \in Range(worlds[w].portals)

\* the calls on the renderer made for portal q at depth d
PassesFor(q, d) ==
  {i \in 1..Len(passes) : passes[i].portal = q /\ passes[i].depth = d}

\* the turn of the loop at a portal that meets a skip condition: nothing is
\* drawn, no stencil value, material or camera changes, no activation is
\* pushed, and the loop moves to the next portal
SkipTurn ==
  (/\ pc = "render" /\ ~LoopDone(Top)
   /\ SkipCondition(CurrentPortal(Top), cameras[Top.camera].position))
    => /\ passes' = passes
       /\ renderer' = renderer
       /\ sceneMaterial' = sceneMaterial
       /\ portals' = portals
       /\ cameras' = cameras
       /\ pc' = "render"
       /\ stack' = [stack EXCEPT ![Len(stack)].i = @ + 1]

\* after render(): a portal of the current world that met a skip condition
\* has no pass of its own, every portal of the current world was either
\* passed over or given its destination pass, after the mask pass if its
\* scene is set, and the current-world pass was made
SkipOutcome ==
  (Finished /\ options.maxRecursion > 0) =>
    /\ WorldPass.kind = "world"
    /\ \A q \in Range(worlds[call.currentWorld].portals) :
         /\ SkipCondition(q, call.camera.position) =>
              /\ PassesFor(q, 0) = {}
              /\ \E s \in 1..Len(skipped) :
                   skipped[s].portal = q /\ skipped[s].depth = 0
         /\ RenderCondition(q, call.camera.position) =>
              /\ portals[q].scene # None =>
                   \E i \in PassesFor(q, 0) : passes[i].kind = "mask"
              /\ \E i \in PassesFor(q, 0) : passes[i].kind = "dest"
         /\ \/ /\ PassesFor(q, 0) = {}
               /\ \E s \in 1..Len(skipped) :
                    skipped[s].portal = q /\ skipped[s].depth = 0
            \/ /\ portals[q].scene # None =>
                    \E i \in PassesFor(q, 0) : passes[i].kind = "mask"
               /\ \E i \in PassesFor(q, 0) : passes[i].kind = "dest"

\* C12: during render() a portal that has no link, or whose plane the camera
\* is not strictly in front of ((camera - position) . normal <= 0), or whose
\* linked portal is in no world of the registry, gets no mask pass, no
\* recursion and no destination pass; passing it over changes no stencil
\* state, and the remaining portals and the current-world pass still run.
C12_SkippedPortals == [][SkipTurn]_vars /\ []SkipOutcome

C12_Witness ==
  /\ Finished /\ options.maxRecursion = 1
  /\ worlds[call.currentWorld].portals = <<"C", "A">>
  /\ \E s \in 1..Len(skipped) :
       skipped[s] = [portal |-> "C", depth |-> 0, reason |-> "unlinked"]
  /\ PassesFor("C", 0) = {}
  /\ \E i \in PassesFor("A", 0) : passes[i].kind = "dest"
  /\ WorldPass.kind = "world"

\* a portal passed over with the camera exactly in its plane
C12_WitnessInPlane ==
  /\ Finished
  /\ \E s \in 1..Len(skipped) :
       /\ skipped[s].reason = "behind"
       /\ CameraDistance(skipped[s].portal, call.camera.position) = 0

\* render() or renderSimple() has ended, by return or by throw
Ended == pc \in {"idle", "threw"} /\ call.op \in {"render", "renderSimple"}

\* C13: after render() or renderSimple() ends, by return or by a throw of
\* any step inside it, the renderer's autoClear has the value it had
\* immediately before the call.
C13_AutoClearRestored == Ended => renderer.autoClear = call.autoClear

C13_Witness ==
  /\ Ended /\ ret = "error"
  /\ call.op = "render" /\ call.autoClear = TRUE
  /\ PassesOfKind("mask") # {}
  /\ renderer.autoClear = TRUE

\* renderSimple threw in its destination pass and autoClear is back
C13_WitnessSimple ==
  /\ Ended /\ ret = "error"
  /\ call.op = "renderSimple" /\ call.autoClear = TRUE
  /\ PassesOfKind("mask") # {} /\ PassesOfKind("dest") = {}
  /\ renderer.autoClear = TRUE

\* what a log of calls on the renderer says about the passes: their order,
\* scenes, stencil functions, reference values and cameras
TraceOf(log) ==
  [i \in 1..Len(log) |->
     [kind |-> log[i].kind, portal |-> log[i].portal, scene |-> log[i].scene,
      stencilFunc |-> log[i].stencilFunc, stencilRef |-> log[i].stencilRef,
      camera |-> log[i].camera, pose |-> log[i].pose]]

\* the log renderSimple leaves when called with the materials and portals
\* render() was called with, for the portal of the current world and the
\* scene of its destination (both calls begin by clearing the buffers)
SimpleLog(cover) ==
  LET p == worlds[call.currentWorld].portals[1]
      dw == findDestWorld(worlds, portals[p].linkedPortal)
  IN renderSimple([renderer |-> renderer,
                   sceneMaterial |-> call.before.sceneMaterial,
                   portals |-> call.before.portals,
                   passes |-> <<>>,
                   cameras |-> cameras],
                  Camera(call.camera.position, call.camera.quaternion),
                  worlds[call.currentWorld].scene, worlds[dw].scene, p,
                  cover, "none").passes

\* C14: for a single linked pair of portals and the same camera,
\* renderSimple makes the same sequence of passes, with the same stencil
\* functions, reference values, cameras and skip decisions, as render() with
\* maxRecursion = 1 on the world that holds the portal.
C14_SimpleIsDepthOneSlice ==
  (Finished /\ options.maxRecursion = 1 /\ MutualLoop) =>
    \E cover \in Covers(Drawn(call.before.portals,
                              worlds[call.currentWorld].portals[1])) :
      TraceOf(SimpleLog(cover)) = TraceOf(passes)

\* C14 with the current-world pass left out of the comparison
C14_SimpleIsDepthOneSlice_PortalPasses ==
  (Finished /\ options.maxRecursion = 1 /\ MutualLoop) =>
    \E cover \in Covers(Drawn(call.before.portals,
                              worlds[call.currentWorld].portals[1])) :
      /\ Len(SimpleLog(cover)) = Len(passes)
      /\ SubSeq(TraceOf(SimpleLog(cover)), 1, Len(passes) - 1)
           = SubSeq(TraceOf(passes), 1, Len(passes) - 1)

\* the current orientation of portal q applied to local +Z
FreshNormal(q) == applyQuaternion(<<0, 0, 1>>, portals[q].quaternion)

\* C15: in every reachable state of a portal, also after its position or
\* quaternion was written to, the normal that getPlane(), isPointInFront()
\* and getSignedDistance() use is the current orientation applied to local
\* +Z: the cached normal never differs from it and no result comes from a
\* stale normal.
C15_NormalNeverStale ==
  /\ \A q \in PortalIds : portals[q].normal = FreshNormal(q)
  /\ call.op = "getPlane" =>
       ret = [normal |-> FreshNormal(call.this),
              constant |-> -dot(portals[call.this].position,
                                FreshNormal(call.this))]
  /\ call.op = "isPointInFront" =>
       ret = Greater(dot(sub(call.point, portals[call.this].position),
                         FreshNormal(call.this)), call.rounding, 0)
  /\ call.op = "getSignedDistance" =>
       ret = dot(sub(call.point, portals[call.this].position),
                 FreshNormal(call.this))

\* a query answered from a stale normal
C15_StaleAnswer ==
  /\ call.op = "isPointInFront" /\ call.point = <<0, 0, 50>>
  /\ portals[call.this].quaternion = flipY
  /\ ret = TRUE

(***************************************************************************)
(* Claims on PortalCrossingObject                                          *)
(***************************************************************************)
\* the plane handed to the updateCrossing call
CallPlane == [normal |-> call.portalNormal, point |-> call.portalPoint]

\* what updateCrossing leaves, by what it returned
CrossingOutcome ==
  call.op = "updateCrossing" =>
    /\ ret = (Abs(dot(sub(object.position, call.portalPoint),
                      call.portalNormal)) < call.objectRadius)
    /\ ret = TRUE =>
         /\ object.sourceClipMaterial \in Variants(object)
         /\ object.destClipMaterial \in Variants(object)
         /\ object.material = object.sourceClipMaterial
         /\ object.clone.visible
         /\ object.clone.material = object.destClipMaterial
    /\ ret = FALSE =>
         /\ object.material = OriginalMaterial
         /\ ~object.clone.visible

\* the clone is hidden until updateCrossing is called, and no other
\* operation shows or hides it
CloneFollowsLastCall ==
  /\ call.op = "none" => ~object.clone.visible
  /\ call.op \notin {"none", "updateCrossing"} =>
       object.clone.visible = call.before.clone.visible

\* C16: after every call updateCrossing(normal, point, radius) the call
\* returned true iff |(objectPosition - point) . normal| < radius; if true the
\* primary mesh uses the source variant and the clone is visible with the
\* destination variant; if false the primary mesh uses its original material
\* and the clone is hidden; so the clone is visible iff the last call
\* reported crossing.
C16_UpdateCrossing == CrossingOutcome /\ CloneFollowsLastCall

C16_Witness ==
  /\ call.op = "updateCrossing" /\ ret = FALSE
  /\ call.before.clone.visible
  /\ Abs(dot(sub(object.position, call.portalPoint), call.portalNormal))
       = call.objectRadius
  /\ call.objectRadius > 0
  /\ object.material = OriginalMaterial
  /\ ~object.clone.visible

\* the last call created new variants
Rebuilt == Len(object.materials) > Len(call.before.materials)

\* C17: over any sequence of updateCrossing calls the two variants are
\* rebuilt only on the first crossing or when the plane (normal, point)
\* differs from that of the last crossing; a call with the plane of the last
\* crossing never rebuilds them, also when the object stopped crossing in
\* between.
C17_RebuildOnlyOnChange ==
  (call.op = "updateCrossing" /\ Rebuilt) =>
    /\ ret = TRUE
    /\ call.before.lastCrossing # {CallPlane}

\* a rebuild for the plane of the last crossing, after a call that did not
\* cross
C17_RebuildAfterGap ==
  /\ call.op = "updateCrossing" /\ Rebuilt
  /\ call.before.lastCrossing = {CallPlane}
  /\ call.before.crossingPortal = {}
  /\ ~call.before.clone.visible

\* the variants created by the object on which dispose() was never called
Undisposed(o) == {m \in Variants(o) : ~o.materials[m].disposed}

\* C18: every rebuild disposes both variants built before it, so after any
\* sequence of updateCrossing calls at most two variants created by the
\* object are undisposed, and after dispose() none is.
C18_VariantsDisposed ==
  /\ Cardinality(Undisposed(object)) <= 2
  /\ (call.op = "updateCrossing" /\ Rebuilt) =>
       /\ \A m \in Variants(call.before) : object.materials[m].disposed
       /\ Undisposed(object)
            = {object.sourceClipMaterial, object.destClipMaterial}
  /\ call.op = "dispose" => Undisposed(object) = {}

C18_Witness ==
  /\ call.op = "updateCrossing" /\ Rebuilt
  /\ Undisposed(call.before) # {}
  /\ Len(object.materials) = 2 * MaxRebuilds + 1
  /\ Cardinality(Undisposed(object)) = 2

\* dispose() called while two variants were live
C18_WitnessDispose ==
  /\ call.op = "dispose"
  /\ Cardinality(Undisposed(call.before)) = 2
  /\ Undisposed(object) = {}

(***************************************************************************)
(* Claims on Portal.dispose() and on the transform in its three places     *)
(***************************************************************************)
\* C19: after A.dispose() on a portal A linked to B the link is broken on
\* both sides: A.linkedPortal is none and B.linkedPortal no longer refers to
\* the disposed portal A.
C19_DisposeBreaksLink ==
  (call.op = "dispose" /\ ~Unlinked(call.before, call.this)) =>
    /\ portals[call.this].linkedPortal = None
    /\ portals[call.before[call.this].linkedPortal].linkedPortal # call.this

\* getDestinationCameraTransform of a linked portal agrees with
\* transformPointThroughPortal and transformQuaternionThroughPortal
CameraTransformAgrees ==
  (call.op = "getDestinationCameraTransform" /\ ~Unlinked(portals, call.this))
    => LET src == PoseOf(portals, call.this)
           dest == PoseOf(portals, portals[call.this].linkedPortal)
       IN /\ ret.position
               = transformPointThroughPortal(call.viewerPosition, src, dest)
          /\ ret.quaternion
               = transformQuaternionThroughPortal(call.viewerQuaternion,
                                                  src, dest)

\* the clone stands where the three implementations send the mesh's pose
ClonePlaced ==
  /\ object.clone.position
       = transformPointThroughPortal(object.position, call.sourcePortal,
                                     call.destPortal)
  /\ object.clone.quaternion
       = transformQuaternionThroughPortal(object.quaternion,
                                          call.sourcePortal, call.destPortal)
  /\ [position |-> object.clone.position,
      quaternion |-> object.clone.quaternion]
       = getDestinationCameraTransform(portals, call.this, object.position,
                                       object.quaternion)

\* C20 as stated: for every pair of portal poses and every input pose,
\* getDestinationCameraTransform of a linked portal returns the position
\* transformPointThroughPortal gives and the orientation
\* transformQuaternionThroughPortal gives, and syncClonePosition places the
\* clone at exactly that position and orientation of the mesh's pose.
C20_SameTransform_Always ==
  /\ CameraTransformAgrees
  /\ call.op = "syncClonePosition" => ClonePlaced

\* C20 amended: the same, with syncClonePosition placing the clone whenever
\* the clone is visible, and leaving it where it was when it is hidden.
C20_SameTransform ==
  /\ CameraTransformAgrees
  /\ (call.op = "syncClonePosition" /\ call.before.clone.visible)
       => ClonePlaced
  /\ (call.op = "syncClonePosition" /\ ~call.before.clone.visible)
       => object = call.before

C20_Witness ==
  /\ call.op = "syncClonePosition" /\ call.before.clone.visible
  /\ call.sourcePortal.quaternion = <<1, 1, 1, 1>>
  /\ call.destPortal.quaternion = <<-1, 1, -1, 1>>
  /\ object.quaternion = <<1, 1, 1, 1>>
  /\ object.clone.position # call.before.clone.position
  /\ object.clone.quaternion # call.before.clone.quaternion
  /\ ClonePlaced

\* the camera transform of a linked portal between two tilted poses
C20_WitnessCamera ==
  /\ call.op = "getDestinationCameraTransform"
  /\ ~Unlinked(portals, call.this)
  /\ portals[call.this].quaternion = <<1, 1, 1, 1>>
  /\ portals[portals[call.this].linkedPortal].quaternion = <<2, 0, 0, 0>>
  /\ call.viewerQuaternion = <<1, 1, 1, 1>>
  /\ ret.position # call.viewerPosition

(***************************************************************************)
(* Claims on computeObliqueProjectionMatrix and getPortalTeleportMatrix    *)
(***************************************************************************)
ObliqueOfNearPlane ==
  /\ call.op = "computeObliqueProjectionMatrix"
  /\ call.clipPlane = NearPlane(call.camera)

\* |a - b| <= tol
RClose(a, b, tol) ==
  LET d == RAdd(a, RNeg(b))
  IN Abs(d[1]) * tol[2] <= tol[1] * d[2]

\* 1e-5 on every element; element 14 is a length, counted in hundredths
Tolerance(i) == IF i = 14 THEN <<1, 1000>> ELSE <<1, 100000>>
SameMatrix(m, n) == \A i \in 0..15 : RClose(m[i], n[i], Tolerance(i))

\* C21: when the clip plane handed to computeObliqueProjectionMatrix is the
\* camera's own near plane, the returned matrix is the camera's projection
\* matrix within 1e-5, and the call leaves the camera's projection matrix
\* as it was
C21_ObliqueIdentity ==
  ObliqueOfNearPlane
    => /\ SameMatrix(ret.matrix, call.camera.projectionMatrix)
       /\ ret.camera.projectionMatrix = call.camera.projectionMatrix

\* C21 for the cameras whose projection matrix has the depth range -1..1
C21_ObliqueIdentity_WebGL ==
  ObliqueOfNearPlane /\ call.camera.coordinateSystem = "WebGL"
    => /\ SameMatrix(ret.matrix, call.camera.projectionMatrix)
       /\ ret.camera.projectionMatrix = call.camera.projectionMatrix

\* the near plane of a camera posed away from the origin, in both depth ranges
C21_WitnessWebGL ==
  /\ ObliqueOfNearPlane /\ call.camera.coordinateSystem = "WebGL"
  /\ call.camera.quaternion # Identity
  /\ ret.matrix = call.camera.projectionMatrix

C21_WitnessWebGPU ==
  /\ ObliqueOfNearPlane /\ call.camera.coordinateSystem = "WebGPU"
  /\ ~RClose(ret.matrix[10], call.camera.projectionMatrix[10], Tolerance(10))
  /\ ~RClose(ret.matrix[14], call.camera.projectionMatrix[14], Tolerance(14))

(***************************************************************************)
(* Claims on the passes of a frame                                         *)
(***************************************************************************)
\* C22: a stencil mask pass draws the mask rectangle of its portal and
\* nothing else: no drawable of the world paints a pixel in it, no other
\* portal's rectangle is drawn or stamps a pixel, and it is made at depth d
\* for the marker d + 1.
C22_MaskPassDrawsOnlyMask ==
  \A i \in PassesOfKind("mask") :
    /\ passes[i].painted = {}
    /\ passes[i].meshes \subseteq {passes[i].portal}
    /\ passes[i].stamped = passes[i].own

\* the same for the portal rectangles alone, the world's drawables left out
C22_MaskPassDrawsOnlyMask_Rectangles ==
  \A i \in PassesOfKind("mask") :
    /\ passes[i].meshes \subseteq {passes[i].portal}
    /\ passes[i].stamped = passes[i].own

\* C23: at every destination pass of render() and renderSimple() the depth
\* buffer is clear (no pixel holds a depth value written by an earlier pass
\* of the frame), and the stencil markers the pass tests are still there.
C23_DepthClearedBeforeDestPass ==
  \A i \in PassesOfKind("dest") : passes[i].depthHeld = {}

\* a destination pass of renderSimple() over depth values of the mask pass
C23_SimpleOverDepth ==
  /\ call.op = "renderSimple" /\ pc = "idle"
  /\ \E i \in PassesOfKind("dest") : passes[i].depthHeld = Pixels

\* a destination pass of render() over the depth values that an earlier
\* destination pass of the same frame wrote
C23_DestOverDest ==
  /\ Finished
  /\ \E i, j \in PassesOfKind("dest") :
       /\ i < j /\ passes[i].painted # {}
       /\ passes[i].painted \subseteq passes[j].depthHeld

\* position and orientation of a logged camera
PoseAt(i) ==
  [position |-> passes[i].pose.position,
   quaternion |-> passes[i].pose.quaternion]

\* C24: the destination pass of every rendered portal, at any depth, is
\* drawn with the secondary camera at getDestinationCameraTransform of the
\* pose the level's camera had when the portal's mask pass was drawn; the
\* passes nested between the two do not move it.  (The level's camera is
\* in the log with the mask pass; a portal whose scene is null has none.)
C24_DestPassCamera ==
  \A i \in PassesOfKind("dest") :
    /\ passes[i].camera = "portal"
    /\ MaskPassOf(i) # 0 =>
       PoseAt(i) =
         getDestinationCameraTransform(portals, passes[i].portal,
                                       PoseAt(MaskPassOf(i)).position,
                                       PoseAt(MaskPassOf(i)).quaternion)

\* C24 for the portals with no pass nested between mask and destination pass
C24_DestPassCamera_Unnested ==
  \A i \in PassesOfKind("dest") :
    (MaskPassOf(i) # 0 /\ MaskPassOf(i) = i - 1) =>
      /\ passes[i].camera = "portal"
      /\ PoseAt(i) =
           getDestinationCameraTransform(portals, passes[i].portal,
                                         PoseAt(MaskPassOf(i)).position,
                                         PoseAt(MaskPassOf(i)).quaternion)

C24_WitnessUnnested ==
  /\ Finished
  /\ \E i \in PassesOfKind("dest") :
       MaskPassOf(i) # 0 /\ MaskPassOf(i) = i - 1 /\ passes[i].depth >= 1

\* the frame starts with the one full clear, and no draw call precedes it
ClearedOnce ==
  pc = "render" \/ Finished =>
    /\ PassesOfKind("clear") = {1}
    /\ Len(passes) = 1 =>
         \A p \in Pixels : /\ renderer.colour[p] = 0
                            /\ renderer.depth[p] = 0
                            /\ renderer.stencil[p] = 0

\* the mask pass of a portal comes before its destination pass, and what
\* lies between the two is nested deeper
MaskThenNestedThenDest ==
  \A i \in PassesOfKind("dest") :
    \E m \in PassesOfKind("mask") :
      /\ m < i
      /\ passes[m].portal = passes[i].portal
      /\ passes[m].depth = passes[i].depth
      /\ \A j \in (m + 1)..(i - 1) : passes[j].depth > passes[i].depth

\* the same for the portals whose scene is set: _renderPortalStencil makes
\* its draw call for them
MaskThenNestedThenDest_SceneSet ==
  \A i \in PassesOfKind("dest") :
    portals[passes[i].portal].scene # None =>
      \E m \in PassesOfKind("mask") :
        /\ m < i
        /\ passes[m].portal = passes[i].portal
        /\ passes[m].depth = passes[i].depth
        /\ \A j \in (m + 1)..(i - 1) : passes[j].depth > passes[i].depth

\* in the finished frame every mask pass has got its destination pass, and
\* the current-world pass is the one last call
WorldPassLast ==
  Finished =>
    /\ PassesOfKind("world") = {Len(passes)}
    /\ \A m \in PassesOfKind("mask") :
         \E i \in PassesOfKind("dest") :
           /\ m < i
           /\ passes[i].portal = passes[m].portal
           /\ passes[i].depth = passes[m].depth
           /\ \A j \in (m + 1)..(i - 1) : passes[j].depth > passes[m].depth

\* inside a frame a call is added at the end of the log or not at all
CallsInProgramOrder ==
  pc = "render" =>
    \/ passes' = passes
    \/ Len(passes') = Len(passes) + 1 /\ SubSeq(passes', 1, Len(passes)) = passes

\* C25: one render() call makes its calls in a fixed order: one full clear
\* of colour, depth and stencil before any draw call; for each rendered
\* portal the mask pass, then the passes nested in it, then its destination
\* pass; the current-world pass as the last draw call of the frame.
C25_PassOrder ==
  /\ [](ClearedOnce /\ MaskThenNestedThenDest /\ WorldPassLast)
  /\ [][CallsInProgramOrder]_vars

\* the order of C25 with the mask pass asked only of portals whose scene
\* is set
C25_PassOrder_SceneSet ==
  /\ [](ClearedOnce /\ MaskThenNestedThenDest_SceneSet /\ WorldPassLast)
  /\ [][CallsInProgramOrder]_vars

\* a destination pass of a portal that got no mask pass
C25_DestWithoutMask ==
  /\ Finished
  /\ \E i \in PassesOfKind("dest") :
       /\ MaskPassOf(i) = 0
       /\ portals[passes[i].portal].scene = None

\* a finished frame with a pass nested between a mask and its destination
\* pass, and two portals rendered at one level
C25_Witness ==
  /\ Finished
  /\ \E i \in PassesOfKind("dest") :
       MaskPassOf(i) # 0 /\ MaskPassOf(i) < i - 1 /\ passes[i].depth = 0
  /\ passes[Len(passes)].kind = "world"

C25_WitnessTwoPortals ==
  /\ Finished
  /\ \E i, j \in PassesOfKind("dest") :
       i # j /\ passes[i].depth = passes[j].depth

\* the scene each mask mesh is a child of is what it was before the call
MembershipAsBefore ==
  \A q \in PortalIds :
    portals[q].meshParent = call.before.portals[q].meshParent

\* C26: a mask mesh that was not a child of its scene is attached for the
\* one draw call of the mask pass only: between the draw calls of a frame
\* and after render() or renderSimple() has ended, by return or by a throw
\* of a draw call, every mask mesh is a child of the scene it was a child
\* of before the call, or of none as before.
C26_MaskMeshDetached ==
  call.op \in {"render", "renderSimple"} => MembershipAsBefore

\* C26 for the calls in which no draw call throws
C26_MaskMeshDetached_NoThrow ==
  (call.op \in {"render", "renderSimple"} /\ pc # "threw") => MembershipAsBefore

\* a mask pass was drawn for a portal whose mesh was in no scene, and the
\* call returned
C26_WitnessReturn ==
  /\ call.op \in {"render", "renderSimple"} /\ pc = "idle"
  /\ \E i \in PassesOfKind("mask") :
       /\ call.before.portals[passes[i].portal].meshParent = None
       /\ passes[i].portal \in passes[i].meshes

\* the draw call of a mask pass threw with the mesh attached for it
C26_WitnessThrow ==
  /\ call.op \in {"render", "renderSimple"} /\ pc = "threw"
  /\ ~MembershipAsBefore

(***************************************************************************)
(* Claim on getPortalTeleportMatrix                                        *)
(***************************************************************************)
\* C27: for every pair of portal poses and every point p, the matrix of
\* getPortalTeleportMatrix(source, dest) applied to p is
\* transformPointThroughPortal(p, source, dest).
C27_TeleportMatrix ==
  call.op = "getPortalTeleportMatrix" =>
    \A p \in Points :
      applyMatrix4ToPoint(p, ret) =
        transformPointThroughPortal(p, call.sourcePortal, call.destPortal)

\* the matrix is the rotation of the teleport: it agrees with the point
\* transform once the two positions are taken out by hand
C27_TeleportMatrix_Rotation ==
  call.op = "getPortalTeleportMatrix" =>
    \A p \in Points :
      add(applyMatrix4ToPoint(sub(p, call.sourcePortal.position), ret),
          call.destPortal.position) =
        transformPointThroughPortal(p, call.sourcePortal, call.destPortal)

C27_WitnessRotation ==
  /\ call.op = "getPortalTeleportMatrix"
  /\ call.sourcePortal.quaternion = <<1, 1, 1, 1>>
  /\ call.destPortal.position # call.sourcePortal.position
  /\ ret[13] = 0 /\ ret[14] = 0 /\ ret[15] = 0

(***************************************************************************)
(* Claim on the mask materials across the passes of a frame                *)
(***************************************************************************)
\* the stencil fields a portal's mask material is built with: writing on,
\* always-pass test
MaskMaterialIntact(m) == m.stencilWrite /\ m.stencilFunc = "always"

\* C28: in scenes that hold the portals' mask meshes as children, every mask
\* pass finds the portal's mask material with stencil writing enabled and
\* the always-pass stencil function: the scene-wide stencil-test setup and
\* reset of the destination and world passes never alter it.
C28_MaskMaterialKept ==
  \A i \in PassesOfKind("mask") :
    call.before.portals[passes[i].portal].meshParent # None =>
      MaskMaterialIntact(passes[i].material)

\* a mask mesh that is in no scene between the draw calls is out of reach of
\* the traversals: its mask material is intact in every mask pass
C28_MaskMaterialKept_Detached ==
  \A i \in PassesOfKind("mask") :
    call.before.portals[passes[i].portal].meshParent = None =>
      MaskMaterialIntact(passes[i].material)

\* a mask pass of a detached mesh drawn after a destination pass
C28_WitnessDetached ==
  \E i \in PassesOfKind("mask"), j \in PassesOfKind("dest") :
    /\ j < i
    /\ call.before.portals[passes[i].portal].meshParent = None
    /\ passes[i].own # {}

(***************************************************************************)
(* Claim on nested mask passes                                             *)
(***************************************************************************)
\* the draw call made in this step, where the step is a mask pass at a
\* nested level
NestedMaskDrawn ==
  /\ Len(passes') = Len(passes) + 1
  /\ passes'[Len(passes')].kind = "mask"
  /\ passes'[Len(passes')].depth >= 1

\* a mask pass at depth d >= 1 stamps only pixels that hold d, the marker
\* of the depth d - 1 mask it is seen through
NestedMaskInsideParent ==
  NestedMaskDrawn =>
    passes'[Len(passes')].stamped \subseteq
      {p \in Pixels : renderer.stencil[p] = passes'[Len(passes')].depth}

\* what the mask passes at depth 0 have stamped before draw call i
TopLevelMasked(i) ==
  UNION {passes[m].stamped :
           m \in {n \in PassesOfKind("mask") : n < i /\ passes[n].depth = 0}}

\* no destination pass paints a pixel outside the top-level masked region
DestInsideTopLevel ==
  \A i \in PassesOfKind("dest") : passes[i].painted \subseteq TopLevelMasked(i)

\* C29: nested rendering stays inside its parent's window: a mask pass at
\* depth d >= 1 stamps only pixels that carry the marker of the depth d - 1
\* mask, and no destination pass paints a pixel outside the region the
\* top-level mask passes stamped.
C29_NestedInsideParent ==
  [][NestedMaskInsideParent]_vars /\ []DestInsideTopLevel

\* the first half alone
C29_NestedMaskStamp == [][NestedMaskInsideParent]_vars

\* the second half alone
C29_DestInsideTopLevel == DestInsideTopLevel

(***************************************************************************)
(* Claim on the camera of one recursion level                              *)
(***************************************************************************)
\* the mask pass of the portal through which the level at depth d >= 1 was
\* entered: the last one drawn at depth d - 1
EntryMaskOf(f) ==
  CHOOSE m \in PassesOfKind("mask") :
    /\ passes[m].depth = f.depth - 1
    /\ \A n \in PassesOfKind("mask") : passes[n].depth = f.depth - 1 => n <= m

\* the pose of the camera passed into the level of frame f: the caller's
\* camera at depth 0, the secondary camera as the parent set it for the
\* portal it entered through at deeper levels
LevelCameraPose(f) ==
  IF f.depth = 0 THEN call.camera
  ELSE getDestinationCameraTransform(portals, passes[EntryMaskOf(f)].portal,
                                     PoseAt(EntryMaskOf(f)).position,
                                     PoseAt(EntryMaskOf(f)).quaternion)

\* the pose the camera of frame f has now
CameraPoseOf(f) ==
  [position |-> cameras[f.camera].position,
   quaternion |-> cameras[f.camera].quaternion]

\* C30: within one recursion level every portal of the level's world is
\* processed against the camera pose that was passed into the level (the
\* caller's camera at depth 0, the parent's secondary camera deeper), and
\* the caller's camera is unchanged after render() returns.
C30_LevelCamera ==
  /\ (pc = "render" /\ stack # <<>> /\ ~LoopDone(Top)) =>
       CameraPoseOf(Top) = LevelCameraPose(Top)
  /\ (call.op = "render" /\ pc = "idle") =>
       [position |-> cameras["main"].position,
        quaternion |-> cameras["main"].quaternion] = call.camera

\* C30 for the first portal of every level, for every portal of the level
\* at depth 0, and for the caller's camera
C30_LevelCamera_FirstOrTop ==
  /\ (pc = "render" /\ stack # <<>> /\ ~LoopDone(Top)
         /\ (Top.i = 1 \/ Top.depth = 0)) =>
       CameraPoseOf(Top) = LevelCameraPose(Top)
  /\ (call.op = "render" /\ pc = "idle") =>
       [position |-> cameras["main"].position,
        quaternion |-> cameras["main"].quaternion] = call.camera

\* the second portal of a level at depth 0 is about to be processed after
\* the first one was rendered, and a nested level is at its first portal
C30_WitnessSecondAtTop ==
  /\ pc = "render" /\ stack # <<>> /\ ~LoopDone(Top)
  /\ Top.depth = 0 /\ Top.i = 2
  /\ PassesOfKind("dest") # {}

====
